---- MODULE Spec2Model ----
(***************************************************************************)
(* Provisioning and supervision engine of the Minecraft clients.           *)
(*                                                                         *)
(* Spec      : the fabric client, worlds/minecraft_fabric/client/          *)
(*             MinecraftClient.py (kivy main thread handlers, the          *)
(*             Downloader callbacks, server_thread and the two queuer      *)
(*             threads of stream_server_output, and the child process).    *)
(* SpecForge : the forge client, worlds/minecraft/Client.py (main,         *)
(*             prepare_server, minecraft_launch_server).                   *)
(***************************************************************************)
EXTENDS Integers, Sequences, FiniteSets, TLC

VARIABLES
    \* ---- fabric client: MinecraftClient fields --------------------------
    screen,             \* window_manager.current
    prompt,             \* the open confirm/edit dialog, "none" when there is none
    apmc,               \* self.apmc
    minecraft_versions, \* self.minecraft_versions[options.release_channel]
    version,            \* self.version: 0 for {}, else the index of the entry it IS
    mod_info,           \* self.mod_info: [ref, val]; ref # 0 when it IS entry ref
    index,              \* self.index
    download,           \* the Downloader jobs whose UrlRequest is in flight
    startPending,       \* start_server calls scheduled by @mainthread
    crashed,            \* an exception escaped a main-thread handler
    notices,            \* the info_dialog popups that are open
    \* ---- install directory (options.server_directory) -------------------
    jdk,                \* jdk<java>*/bin/java is a file
    jars,               \* server jar names present
    modsDir,            \* files in mods/
    sidecar,            \* content of ap-version.json
    eula,               \* content of eula.txt
    saveFile,           \* content of Archipelago-<seed>-P<id>/save.apmc
    \* ---- supervision -----------------------------------------------------
    srvPc,              \* position of server_thread
    status,             \* self.status
    statusText,         \* server_window.status.text, abstracted
    stop,               \* MinecraftClient.stop (class-level threading.Event)
    child,              \* the Popen child: "none", "alive", "exited"
    written,            \* number of lines the child has written so far
    pipe,               \* per stream: lines written and not yet read
    rdPc,               \* per stream: position of the queuer thread
    queue,              \* server_queue
    log,                \* what log_info / log_warn / log_error / log_raw got
    \* ---- forge client: module globals and MinecraftContext fields --------
    fPc,                \* position of main / prepare_server / minecraft_launch_server
    jdk_executable,     \* the global jdk_executable is set (not None)
    forge_dir,          \* forge_dir: "absent", "empty", or "installed" (libraries/...)
    exit_event,         \* ctx.exit_event
    ui_task,            \* the kivy application: "running" or "done"
    \* ---- window close, commands, version manifest --------------------------
    closing,            \* Clock.schedule_interval(self.close, 1 / 60) is active
    terminal,           \* sys.exit() was called on the main thread
    stdin,              \* what was written to the child's stdin
    manifest,           \* the UrlRequest of build: "pending" or "done"
    cache,              \* minecraft_versions.json exists in the install directory
    \* ---- history (observation only) --------------------------------------
    hist

vars == << screen, prompt, apmc, minecraft_versions, version, mod_info, index,
           download, startPending, crashed, notices, jdk, jars, modsDir,
           sidecar, eula, saveFile, srvPc, status, statusText, stop, child,
           written, pipe, rdPc, queue, log, fPc, jdk_executable, forge_dir,
           exit_event, ui_task, closing, terminal, stdin, manifest, cache,
           hist >>

clientVars == << screen, prompt, apmc, minecraft_versions, version, mod_info,
                 index, download, startPending, crashed, notices >>
diskVars   == << jdk, jars, modsDir, sidecar, eula, saveFile >>
superVars  == << srvPc, status, statusText, stop, child, written,
                 pipe, rdPc, queue, log >>
forgeVars  == << fPc, jdk_executable, forge_dir, exit_event, ui_task >>
appVars    == << closing, terminal, stdin, manifest, cache >>

-----------------------------------------------------------------------------
\* Bounds of the model.
MaxLines     == 2   \* lines one child writes before it exits
MaxRedirects == 1   \* redirects one download is answered with
MaxCommands  == 2   \* commands written to one child's stdin
MaxChain     == 5   \* redirects a download is answered with in a row

\* ServerStatus
STOPPED  == 0
STARTING == 1
RUNNING  == 2

Streams == {"stdout", "stderr"}

Range(s) == {s[i] : i \in DOMAIN s}

-----------------------------------------------------------------------------
\* The version catalog. A dict is a record; mod_list_version 0 stands for a
\* missing key (dict.get gives None).
Empty == [version |-> 0, mod_list_version |-> 0, mods |-> << >>, minecraft |-> "none"]

Catalog ==
    << [version |-> 1, mod_list_version |-> 1, mods |-> <<"a.jar">>,
        minecraft |-> "1.19"],
       [version |-> 2, mod_list_version |-> 2, mods |-> <<"a.jar", "b.jar">>,
        minecraft |-> "1.19"] >>

\* The dict self.version refers to.
VersionDict == IF version = 0 THEN Empty ELSE minecraft_versions[version]

\* The dict self.mod_info refers to.
ModInfoDict == IF mod_info.ref = 0 THEN mod_info.val ELSE minecraft_versions[mod_info.ref]

\* dict.update: every key of src overwrites dst; an empty src changes nothing.
DictUpdate(dst, src) == IF src = Empty THEN dst ELSE src

\* Session descriptors a file may decode to.
NoApmc == [client_version |-> 0, description |-> FALSE]
Descriptors == [client_version : 1..3, description : BOOLEAN]

EulaTexts == {"absent", "false", "true", "TRUE"}

\* History, for stating properties: whether the install directory was fresh
\* (no runtime, no server jar, no ap-version.json) at construction; which
\* prompt of the open session was answered no (declined); what mods/
\* held when the mods prompt was
\* raised and how the prompt was answered; the list, the requests and the
\* installed identifier of the confirmed update; launches; and, for the
\* current run of server_thread, whether the exit was detected, the status
\* before the line dequeued last, that line, and the number of
\* Stopped -> Starting transitions.
NoLine == [thread |-> "none", level |-> "none", logger |-> FALSE,
           msg |-> "none", ver |-> "none"]

NoHist == [modsAtPrompt |-> {}, modAnswer |-> "none", confirmed |-> << >>,
           requested |-> << >>, idAtConfirm |-> 0, idRecord |-> 0,
           failedMod |-> FALSE,
           launches |-> 0, overlap |-> FALSE, exitSeen |-> FALSE,
           depFailed |-> FALSE, eulaAnswer |-> "none", fresh |-> FALSE,
           declined |-> "none", sentDead |-> FALSE, killed |-> FALSE,
           sends |-> 0, sendRaised |-> "no", lookup |-> "none", malformed |-> FALSE,
           enc |-> "none", roundTrip |-> TRUE,
           failCause |-> "none", fail |-> "none", jdkCheck |-> "none",
           saveAtOpen |-> NoApmc, named |-> "none", connected |-> "none", addressBar |-> "none",
           archive |-> "none", extracted |-> {},
           modUpdate |-> "none", modsBefore |-> {},
           fetch |-> [kind |-> "none", name |-> "none", header |-> "none"],
           catalogReported |-> FALSE, exitStatus |-> STOPPED,
           prev |-> STOPPED, lastLine |-> NoLine, s2s |-> 0]

-----------------------------------------------------------------------------
\* Log lines of the child. A line is kept by the parts the three regular
\* expressions of server_thread look at:
\*   "[HH:MM:SS] [<thread>/<level>] [<logger>]: <msg>"   (logger = TRUE)
\*   "[HH:MM:SS] [<thread>/<level>]: <msg>"              (logger = FALSE)
\* ver is the <version> of a "Loading Minecraft <version>" message.
LoadingLine(v) == [thread |-> "main", level |-> "INFO", logger |-> FALSE,
                   msg |-> "Loading Minecraft", ver |-> v]
DoneLine == [thread |-> "Server thread", level |-> "INFO", logger |-> FALSE,
             msg |-> "Done", ver |-> "none"]
BoomLine == [thread |-> "main", level |-> "ERROR", logger |-> TRUE,
             msg |-> "boom", ver |-> "none"]

\* The lines a child may write; it reports the version of the jar it runs.
ChildLines == {LoadingLine(VersionDict.minecraft), DoneLine, BoomLine}

\* re.match("^\[[0-9:]+] \[.+/(WARN|INFO|ERROR)] \[.+]: (.*)", raw_message)
LeveledMatch(line) == line.logger /\ line.level \in {"WARN", "INFO", "ERROR"}

\* (mutant) the starting pattern written with the "[logger]" part of the
\* leveled pattern.
server_starting_match_logger(line) ==
    /\ line.thread = "main" /\ line.level = "INFO" /\ line.logger
    /\ line.msg = "Loading Minecraft"

\* re.match("^\[[0-9:]+] \[main/INFO]: Loading Minecraft ([0-9.]+)", raw_message)
server_starting_match(line) ==
    /\ line.thread = "main" /\ line.level = "INFO" /\ ~line.logger
    /\ line.msg = "Loading Minecraft"

\* (mutant) the started pattern on the main thread's lines.
server_started_match_main(line) ==
    /\ line.thread = "main" /\ line.level = "INFO" /\ ~line.logger
    /\ line.msg = "Done"

\* re.match("^\[[0-9:]+] \[Server thread/INFO]: Done \([0-9.]+s\)! For help, ...
server_started_match(line) ==
    /\ line.thread = "Server thread" /\ line.level = "INFO" /\ ~line.logger
    /\ line.msg = "Done"

\* What the leveled logging of one dequeued line hands to the log sink.
LogEvent(line) ==
    IF LeveledMatch(line) THEN [level |-> line.level, msg |-> line.msg]
    ELSE [level |-> "INFO", msg |-> "raw"]

\* (mutant) the status block without its "if self.status < RUNNING" guard.
StatusAfterLine_unguarded(st, line) ==
    LET s1 == IF server_starting_match(line) THEN STARTING ELSE st
    IN  IF server_started_match(line) THEN RUNNING ELSE s1

\* self.status after the status block of server_thread has seen one line.
StatusAfterLine(st, line) ==
    IF st < RUNNING
    THEN LET s1 == IF server_starting_match(line) THEN STARTING ELSE st
         IN  IF server_started_match(line) THEN RUNNING ELSE s1
    ELSE st

-----------------------------------------------------------------------------
\* Checks of start_server.

check_mods == ModInfoDict.mod_list_version = VersionDict.mod_list_version

get_jdk == jdk

get_server_jar_name == VersionDict.minecraft

\* (mutant) the jar counts as missing while a launched server thread has not
\* yet opened it.
get_server_jar_busy == get_server_jar_name \in jars /\ srvPc # "start"

get_server_jar == get_server_jar_name \in jars

\* check_eula: its answer, and the eula.txt it leaves behind.
check_eula == eula = "true"

EulaAfterCheck(text) == IF text = "absent" THEN "false" ELSE text

\* eula_yes: text.replace('false', 'true') when 'false' in text.
EulaAfterYes(text) == IF text = "false" THEN "true" ELSE text

\* URLs and Location headers are texts, sequences of one-character strings.
\* The download site is a chain of resources: resource i answers a request
\* with its body or with a redirect to resource i + 1; two resources in a row
\* share a host, the next two are on the other host.
Digit(i) == << "0", "1", "2", "3", "4", "5", "6", "7", "8", "9" >>[i + 1]

ResourceHost(i) == IF (i \div 2) % 2 = 0 THEN "a" ELSE "b"

ResourcePath(i) == << "/", Digit(i) >>

ResourceUrl(i) == << "h", ":", "/", "/", ResourceHost(i) >> \o ResourcePath(i)

\* The Location headers resource i may redirect to resource i + 1 with: the
\* absolute URL, and for a resource on the same host the absolute path or the
\* path relative to the resource.
Locations(i) ==
    {ResourceUrl(i + 1)} \cup
    IF ResourceHost(i + 1) = ResourceHost(i)
    THEN {ResourcePath(i + 1), << Digit(i + 1) >>}
    ELSE {}

\* The resources a request for the text u reaches: a text that is not the URL
\* of a resource (no scheme, no such host) gets no HTTP answer.
ServedAt(u) == {i \in 0..8 : ResourceUrl(i) = u}

\* The first position of the character c in the text t, Len(t) + 1 if none.
Find(t, c) ==
    IF \E k \in 1..Len(t) : t[k] = c
    THEN CHOOSE k \in 1..Len(t) : t[k] = c /\ \A m \in 1..(k - 1) : t[m] # c
    ELSE Len(t) + 1

\* urllib.parse.urlparse: the scheme is what precedes the first ":" when it
\* is made of letters, the netloc what follows "//" up to the next "/".
urlparse(u) ==
    LET colon == Find(u, ":")
        hasScheme == /\ 1 < colon /\ colon <= Len(u)
                     /\ \A k \in 1..(colon - 1) : u[k] \in {"h", "a", "b"}
        rest == IF hasScheme THEN SubSeq(u, colon + 1, Len(u)) ELSE u
        hasNetloc == Len(rest) >= 2 /\ rest[1] = "/" /\ rest[2] = "/"
        after == IF hasNetloc THEN SubSeq(rest, 3, Len(rest)) ELSE rest
        slash == Find(after, "/")
    IN  [scheme |-> IF hasScheme THEN SubSeq(u, 1, colon - 1) ELSE << >>,
         netloc |-> IF hasNetloc THEN SubSeq(after, 1, slash - 1) ELSE << >>,
         path   |-> IF hasNetloc THEN SubSeq(after, slash, Len(after)) ELSE rest]

\* Downloader._download_redirect: the URL the request is reissued against,
\* given the URL of the redirected request and its Location header.
download_redirect_url(request_url, loc) ==
    LET old_url == urlparse(request_url)
    IN  IF loc # << >> /\ loc[1] = "/"
        THEN old_url.scheme \o << ":", "/", "/" >> \o old_url.netloc \o loc
        ELSE loc

\* server_jar_redirect and jdk_redirect of the mcfabric client:
\* f"{old_url.scheme}://{old_url.netloc}{loc}" whatever the Location is.
server_jar_redirect_url(request_url, loc) ==
    LET old_url == urlparse(request_url)
    IN  old_url.scheme \o << ":", "/", "/" >> \o old_url.netloc \o loc

\* The URL the callback cb reissues the request against.
ReissueUrl(cb, request_url, loc) ==
    IF cb = "_download_redirect"
    THEN download_redirect_url(request_url, loc)
    ELSE server_jar_redirect_url(request_url, loc)

\* A fresh handle for a new Downloader, given the jobs dl in flight.
NewId(dl) == CHOOSE n \in 1..(Cardinality(dl) + 1) : \A j \in dl : j.id # n

\* The Content-Length a response may carry: -1 stands for none (the
\* total_size kivy then reports), NoResponse for a request not answered yet.
NoResponse == -2
Totals == {-1, 0, 2}

\* A UrlRequest in flight: the URL it was issued against, the redirects it
\* has followed, its on_redirect callback; the size of the response and the
\* bytes of it received so far; the progress value of the dialog shown for
\* it (ProgressBarDialog.progress = NumericProperty(0)).
Request(id, kind, name, cb) ==
    [id |-> id, kind |-> kind, name |-> name, hops |-> 0,
     url |-> ResourceUrl(0), on_redirect |-> cb,
     recv |-> 0, total |-> NoResponse, progress |-> 0]

\* The request of job j reissued against the URL u: a new UrlRequest, with
\* a response of its own. download_server_jar and download_jdk of the
\* mcfabric client close the progress dialog and show a new one; the
\* Downloader keeps its download_popup.
Reissued(j, u, hops) ==
    [j EXCEPT !.hops = hops, !.url = u, !.recv = 0, !.total = NoResponse,
              !.progress = IF j.on_redirect = "_download_redirect" THEN @ ELSE 0]

\* download_file: one more Downloader next to the jobs dl, its UrlRequest in
\* flight. name is the file the job writes (the runtime for an extract job).
download_file(dl, kind, name) ==
    dl \cup {Request(NewId(dl), kind, name, "_download_redirect")}

-----------------------------------------------------------------------------
\* Session files. A text is a sequence of character codes; a descriptor with
\* client_version 0 is a dict without that key.

KeyClientVersion ==   \* {"client_version":<space>
    << 123, 34, 99, 108, 105, 101, 110, 116, 95, 118, 101, 114, 115, 105, 111,
       110, 34, 58, 32 >>
TailDescription ==    \* , "description": ""}
    << 44, 32, 34, 100, 101, 115, 99, 114, 105, 112, 116, 105, 111, 110, 34,
       58, 32, 34, 34, 125 >>
OnlyDescription ==    \* {"description": ""}
    << 123, 34, 100, 101, 115, 99, 114, 105, 112, 116, 105, 111, 110, 34, 58,
       32, 34, 34, 125 >>

StartsWith(t, p) == Len(p) <= Len(t) /\ SubSeq(t, 1, Len(p)) = p

\* json.dumps(d)
json_dumps(d) ==
    KeyClientVersion \o << 48 + d.client_version >>
        \o (IF d.description THEN TailDescription ELSE << 125 >>)

\* json.loads(t): ok is FALSE where it raises JSONDecodeError.
json_loads(t) ==
    LET n == Len(KeyClientVersion)
    IN  IF t = OnlyDescription
        THEN [ok |-> TRUE, d |-> [client_version |-> 0, description |-> TRUE]]
        ELSE IF StartsWith(t, KeyClientVersion) /\ Len(t) > n + 1
                /\ t[n + 1] \in 49..57
                /\ SubSeq(t, n + 2, Len(t)) \in {<< 125 >>, TailDescription}
        THEN [ok |-> TRUE,
              d |-> [client_version |-> t[n + 1] - 48,
                     description |-> Len(t) > n + 2]]
        ELSE [ok |-> FALSE, d |-> NoApmc]

\* The base64 alphabet: the character of a 6 bit value, and back (-1 for a
\* character outside the alphabet).
B64Char(v) ==
    IF v < 26 THEN 65 + v
    ELSE IF v < 52 THEN 71 + v
    ELSE IF v < 62 THEN v - 4
    ELSE IF v = 62 THEN 43 ELSE 47

B64Val(c) ==
    IF c \in 65..90 THEN c - 65
    ELSE IF c \in 97..122 THEN c - 71
    ELSE IF c \in 48..57 THEN c + 4
    ELSE IF c = 43 THEN 62
    ELSE IF c = 47 THEN 63 ELSE -1

\* base64.b64encode(bytes)
RECURSIVE b64encode(_)
b64encode(b) ==
    IF b = << >> THEN << >>
    ELSE IF Len(b) = 1
    THEN << B64Char(b[1] \div 4), B64Char((b[1] % 4) * 16), 61, 61 >>
    ELSE IF Len(b) = 2
    THEN << B64Char(b[1] \div 4), B64Char((b[1] % 4) * 16 + b[2] \div 16),
            B64Char((b[2] % 16) * 4), 61 >>
    ELSE << B64Char(b[1] \div 4), B64Char((b[1] % 4) * 16 + b[2] \div 16),
            B64Char((b[2] % 16) * 4 + b[3] \div 64), B64Char(b[3] % 64) >>
         \o b64encode(SubSeq(b, 4, Len(b)))

\* The bytes of a run of whole 4 character groups.
RECURSIVE b64groups(_)
b64groups(c) ==
    IF c = << >> THEN << >>
    ELSE LET v1 == B64Val(c[1])
             v2 == B64Val(c[2])
             v3 == B64Val(c[3])
             v4 == B64Val(c[4])
         IN  (IF c[3] = 61 THEN << v1 * 4 + v2 \div 16 >>
              ELSE IF c[4] = 61
              THEN << v1 * 4 + v2 \div 16, (v2 % 16) * 16 + v3 \div 4 >>
              ELSE << v1 * 4 + v2 \div 16, (v2 % 16) * 16 + v3 \div 4,
                      (v3 % 4) * 64 + v4 >>)
             \o b64groups(SubSeq(c, 5, Len(c)))

\* base64.b64decode(text) with validate=False: characters outside the
\* alphabet are dropped; ok is FALSE where it raises binascii.Error.
b64decode(c) ==
    LET a == SelectSeq(c, LAMBDA x : B64Val(x) >= 0 \/ x = 61)
    IN  IF Len(a) % 4 = 0 /\ (a = << >> \/ (a[1] # 61 /\ a[2] # 61))
        THEN [ok |-> TRUE, bytes |-> b64groups(a)]
        ELSE [ok |-> FALSE, bytes |-> << >>]

\* generate_output: the .apmc file the generator writes for d.
generate_output(d) == b64encode(json_dumps(d))

\* (mutant) the test for a base64 file looking for a capital E.
startswith_E(data) == data # << >> /\ data[1] = 69

\* data.startswith("e")
startswith_e(data) == data # << >> /\ data[1] = 101

\* data.startswith("{")
startswith_brace(data) == data # << >> /\ data[1] = 123

\* The decoding at the head of open_apmc. kind "ok": apmc is bound to d;
\* "raise": b64decode or json.loads raised; "unbound": neither branch ran and
\* "if apmc is not None" reads a local that was never assigned.
decode_apmc(data) ==
    IF startswith_e(data)
    THEN LET b == b64decode(data)
         IN  IF b.ok /\ json_loads(b.bytes).ok
             THEN [kind |-> "ok", d |-> json_loads(b.bytes).d]
             ELSE [kind |-> "raise", d |-> NoApmc]
    ELSE IF startswith_brace(data)
    THEN IF json_loads(data).ok
         THEN [kind |-> "ok", d |-> json_loads(data).d]
         ELSE [kind |-> "raise", d |-> NoApmc]
    ELSE [kind |-> "unbound", d |-> NoApmc]

\* json.dump(self.apmc, file) into save.apmc: what the file reads back as.
save_apmc(d) == decode_apmc(json_dumps(d)).d

\* Files that are no session file: plain text, a lone "e", broken JSON, and
\* JSON without client_version.
MalformedFiles ==
    { << 104, 105 >>, << 101 >>, << 123, 125, 125 >>, OnlyDescription,
      b64encode(OnlyDescription) }

\* The files open_apmc is given: what the generator wrote for a descriptor,
\* raw JSON of one (a save file), or a malformed file. src is the descriptor
\* the file was written from.
ApmcFiles ==
    [src : Descriptors, enc : {"base64"}, data : {<< >>}, bad : {FALSE}]
    \cup [src : Descriptors, enc : {"json"}, data : {<< >>}, bad : {FALSE}]
    \cup [src : {NoApmc}, enc : {"none"}, data : MalformedFiles, bad : {TRUE}]

\* RecentItem.load: the save.apmc of the world directory, if it is there.
SaveFiles ==
    IF saveFile = NoApmc THEN {}
    ELSE {[src |-> saveFile, enc |-> "save", data |-> << >>, bad |-> FALSE]}

FileData(f) ==
    IF f.enc = "base64" THEN generate_output(f.src)
    ELSE IF f.enc \in {"json", "save"} THEN json_dumps(f.src)
    ELSE f.data

-----------------------------------------------------------------------------
\* Archives of the runtime. A member name "root/bin/java" is the sequence of
\* what full_name.split("/") gives; the name of a directory ends in "/", so
\* its sequence ends in an empty string. A path on disk is the sequence of its
\* components below the server directory.

\* The root folders the archive of the runtime may have.
ArchiveRoots == {"jdk17.0.1_12", "amazon-corretto-17"}

\* archive.namelist() of the archive with the root folder root.
namelist(root) ==
    { << root, "" >>, << root, "bin", "" >>, << root, "bin", "java" >>,
      << root, "release" >> }

\* archive.getinfo(name).is_dir()
is_dir(full_name) == full_name[Len(full_name)] = ""

\* list(filter(bool, full_name.split("/")))
RECURSIVE filter_bool(_)
filter_bool(parts) ==
    IF parts = << >> THEN << >>
    ELSE IF Head(parts) = "" THEN filter_bool(Tail(parts))
    ELSE << Head(parts) >> \o filter_bool(Tail(parts))

\* f"jdk{self.version['java']}"
JdkDirName == "jdk17"

\* directory.startswith(f"jdk{self.version['java']}")
startswith_jdk(directory) == directory \in {"jdk17", "jdk17.0.1_12"}

\* Downloader._extract with folder the server directory: the files written.
Downloader_extract(names) ==
    { filter_bool(full_name) : full_name \in {n \in names : ~is_dir(n)} }

\* jdk_extract of the mcfabric client (download_jdk of the forge client does
\* the same): del file_path[0], and the files go below jdk_dir.
jdk_extract(names) ==
    { << JdkDirName >> \o Tail(filter_bool(full_name)) :
         full_name \in {n \in names : ~is_dir(n)} }

\* get_jdk of the fabric client over the files on disk: a directory whose
\* name starts with jdk<version> and holds bin/java.
get_jdk_in(files) ==
    \E f \in files :
        Len(f) = 3 /\ startswith_jdk(f[1]) /\ f[2] = "bin" /\ f[3] = "java"

\* get_jdk of the mcfabric client: jdk<version>/bin/java is a file.
mcfabric_get_jdk_in(files) == << JdkDirName, "bin", "java" >> \in files

-----------------------------------------------------------------------------
\* The fabric client: handlers of the kivy main thread. Each runs to its end
\* before the next event is taken.

MainIdle == ~crashed /\ ~terminal

\* self.minecraft_versions has the key options.release_channel. The variable
\* minecraft_versions holds the list under that key; manifest tells whether
\* the dict was loaded and has the key.
HasChannel == manifest = "done"

\* The outcome of "self.version = next(filter(..., self.minecraft_versions[
\* options.release_channel]))" under the except KeyError of open_apmc: a
\* missing key raises KeyError, which is caught and reported; an exhausted
\* filter raises StopIteration, which is not caught.
VersionLookup(d) ==
    IF d.client_version = 0
    THEN \* the KeyError of self.apmc["client_version"], or of the channel, is
         \* caught, and the message of the handler reads the same key again
         "raised"
    ELSE IF ~HasChannel THEN "reported"
    ELSE IF \E i \in DOMAIN minecraft_versions :
                  minecraft_versions[i].version = d.client_version
         THEN "found"
         ELSE "raised"

\* The outcome of open_apmc on the file f: a decoding that raises, or leaves
\* apmc unbound, ends the handler before the try block.
OpenOutcome(f) ==
    IF decode_apmc(FileData(f)).kind = "ok"
    THEN VersionLookup(decode_apmc(FileData(f)).d)
    ELSE "raised"

\* open_apmc(path): the file f is read and decoded to the descriptor d.
open_apmc ==
    /\ MainIdle /\ screen = "Welcome" /\ prompt = "none" /\ notices = {}
    /\ \E f \in ApmcFiles \cup SaveFiles :
       LET r == decode_apmc(FileData(f))
           d == r.d
       IN
        /\ apmc' = IF r.kind = "ok" THEN d ELSE apmc
        /\ hist' = [hist EXCEPT !.declined = "none", !.lookup = OpenOutcome(f),
                                !.failCause = "none", !.fail = "none",
                                !.saveAtOpen = saveFile,
                                !.malformed = f.bad, !.enc = f.enc,
                                !.roundTrip = (f.bad \/ r = [kind |-> "ok", d |-> f.src])]
        /\ CASE OpenOutcome(f) = "found" ->
                /\ version' = CHOOSE i \in DOMAIN minecraft_versions :
                        /\ minecraft_versions[i].version = d.client_version
                        /\ \A k \in 1..(i - 1) :
                              minecraft_versions[k].version # d.client_version
                /\ screen' = "Server"
                /\ startPending' = startPending + 1
                /\ UNCHANGED << crashed, notices >>
             [] OpenOutcome(f) = "reported" ->
                \* log_error and info_dialog name the version and the channel
                /\ notices' = notices \cup {"version"}
                /\ UNCHANGED << version, screen, startPending, crashed >>
             [] OpenOutcome(f) = "raised" ->
                /\ crashed' = TRUE
                /\ UNCHANGED << version, screen, startPending, notices >>
    /\ UNCHANGED << prompt, minecraft_versions, mod_info, index, download >>
    /\ UNCHANGED << diskVars, superVars >>
    /\ UNCHANGED << forgeVars, appVars >>

\* threading.Thread(target=self.server_thread).start()
LaunchThread ==
    /\ srvPc' = "start"
    /\ hist' = [hist EXCEPT !.launches = IF @ < 2 THEN @ + 1 ELSE @,
                            !.overlap = @ \/ srvPc \in {"start", "loop", "drain"}]

\* start_server, one scheduled call of it.
start_server ==
    /\ MainIdle /\ startPending > 0
    /\ startPending' = startPending - 1
    /\ IF ~check_mods
       THEN /\ index' = 0
            /\ prompt' = "mods"
            /\ hist' = [hist EXCEPT !.modsAtPrompt = modsDir, !.modAnswer = "pending"]
            /\ UNCHANGED << download, eula, srvPc >>
       ELSE IF ~get_jdk
       THEN /\ download' = download_file(download, "jdk", "jdk")
            /\ UNCHANGED hist
            /\ UNCHANGED << index, prompt, eula, srvPc >>
       ELSE IF ~get_server_jar
       THEN /\ download' = download_file(download, "jar", get_server_jar_name)
            /\ UNCHANGED hist
            /\ UNCHANGED << index, prompt, eula, srvPc >>
       ELSE IF ~apmc.description
       THEN /\ prompt' = "description"
            /\ UNCHANGED hist
            /\ UNCHANGED << index, download, eula, srvPc >>
       ELSE IF ~check_eula
       THEN /\ eula' = EulaAfterCheck(eula)
            /\ prompt' = "eula"
            /\ UNCHANGED hist
            /\ UNCHANGED << index, download, srvPc >>
       ELSE /\ LaunchThread
            /\ UNCHANGED << index, download, prompt, eula >>
    /\ UNCHANGED << screen, apmc, minecraft_versions, version, mod_info, crashed, notices >>
    /\ UNCHANGED << jdk, jars, modsDir, sidecar, saveFile >>
    /\ UNCHANGED << status, statusText, stop, child, written, pipe, rdPc,
                    queue, log >>
    /\ UNCHANGED << forgeVars, appVars >>

\* (mutant) set_description calling start_server twice.
set_description_twice ==
    /\ MainIdle /\ prompt = "description"
    /\ prompt' = "none"
    /\ apmc' = [apmc EXCEPT !.description = TRUE]
    /\ startPending' = startPending + 2
    /\ UNCHANGED hist
    /\ UNCHANGED << screen, minecraft_versions, version, mod_info, index, download,
                    crashed, notices >>
    /\ UNCHANGED << diskVars, superVars >>
    /\ UNCHANGED << forgeVars, appVars >>

\* set_description(text), the confirm of the description prompt.
set_description ==
    /\ MainIdle /\ prompt = "description"
    /\ prompt' = "none"
    /\ apmc' = [apmc EXCEPT !.description = TRUE]
    /\ startPending' = startPending + 1
    /\ UNCHANGED hist
    /\ UNCHANGED << screen, minecraft_versions, version, mod_info, index, download,
                    crashed, notices >>
    /\ UNCHANGED << diskVars, superVars >>
    /\ UNCHANGED << forgeVars, appVars >>

\* eula_yes, the confirm of the EULA prompt.
eula_yes ==
    /\ MainIdle /\ prompt = "eula"
    /\ prompt' = "none"
    /\ eula' = EulaAfterYes(eula)
    /\ startPending' = startPending + 1
    /\ UNCHANGED hist
    /\ UNCHANGED << screen, apmc, minecraft_versions, version, mod_info, index,
                    download, crashed, notices >>
    /\ UNCHANGED << jdk, jars, modsDir, sidecar, saveFile, superVars >>
    /\ UNCHANGED << forgeVars, appVars >>

\* (mutant) eula_no calling start_server as eula_yes does.
eula_no_restart ==
    /\ MainIdle /\ prompt = "eula"
    /\ prompt' = "none"
    /\ screen' = "Welcome"
    /\ startPending' = startPending + 1
    /\ hist' = [hist EXCEPT !.declined = "eula"]
    /\ UNCHANGED << apmc, minecraft_versions, version, mod_info, index, download,
                    crashed, notices >>
    /\ UNCHANGED << diskVars, superVars >>
    /\ UNCHANGED << forgeVars, appVars >>

\* eula_no, the cancel of the EULA prompt.
eula_no ==
    /\ MainIdle /\ prompt = "eula"
    /\ prompt' = "none"
    /\ screen' = "Welcome"
    /\ hist' = [hist EXCEPT !.declined = "eula"]
    /\ UNCHANGED << apmc, minecraft_versions, version, mod_info, index, download,
                    startPending, crashed, notices >>
    /\ UNCHANGED << diskVars, superVars >>
    /\ UNCHANGED << forgeVars, appVars >>

-----------------------------------------------------------------------------
\* The closures of start_server behind the "Mod List Update" prompt. mods is
\* self.version["mods"]; no handler changes it between the prompt and the end
\* of the downloads.
mods == VersionDict.mods

\* (mutant) the end test of next_mod off by one.
ModsDone_early(i, list) == i + 1 >= Len(list)

\* if self.index >= len(mods)
ModsDone(i, list) == i >= Len(list)

\* finish_mod_download: writes ap-version.json, makes mod_info the version dict
\* itself, and calls start_server. (h is the history record to extend.)
finish_mod_download(dl, h) ==
    /\ sidecar' = VersionDict
    /\ mod_info' = [ref |-> version, val |-> Empty]
    /\ startPending' = startPending + 1
    /\ download' = dl
    /\ UNCHANGED index
    /\ hist' = h

\* The Downloader jobs of list[from], list[from + 1], ..., next to dl.
RECURSIVE download_rest(_, _, _)
download_rest(dl, list, from) ==
    IF from > Len(list) THEN dl
    ELSE download_rest(download_file(dl, "mod", list[from]), list, from + 1)

\* (mutant) next_mod starting every remaining download at once.
next_mod_all(dl, h) ==
    IF ModsDone(index, mods)
    THEN finish_mod_download(dl, h)
    ELSE /\ download' = download_rest(dl, mods, index + 1)
         /\ index' = Len(mods)
         /\ hist' = [h EXCEPT !.requested = @ \o SubSeq(mods, index + 1, Len(mods))]
         /\ UNCHANGED << sidecar, mod_info, startPending >>

\* next_mod, with dl the jobs still in flight when it is called.
next_mod(dl, h) ==
    IF ModsDone(index, mods)
    THEN finish_mod_download(dl, h)
    ELSE /\ download' = download_file(dl, "mod", mods[index + 1])
         /\ index' = index + 1
         /\ hist' = [h EXCEPT !.requested = Append(@, mods[index + 1])]
         /\ UNCHANGED << sidecar, mod_info, startPending >>

\* update_mod_list, the confirm of the mods prompt: wipes mods/ and starts
\* the chain of downloads.
update_mod_list ==
    /\ MainIdle /\ prompt = "mods"
    /\ prompt' = "none"
    /\ modsDir' = {}
    /\ next_mod(download, [hist EXCEPT !.modAnswer = "yes", !.confirmed = mods,
                                       !.requested = << >>, !.failedMod = FALSE,
                                       !.idAtConfirm = ModInfoDict.mod_list_version,
                                       !.idRecord = VersionDict.mod_list_version])
    /\ UNCHANGED << screen, apmc, minecraft_versions, version, crashed, notices >>
    /\ UNCHANGED << jdk, jars, eula, saveFile, superVars >>
    /\ UNCHANGED << forgeVars, appVars >>

\* (mutant) dont_update clearing mods/ as update_mod_list does.
dont_update_wipe ==
    /\ MainIdle /\ prompt = "mods"
    /\ prompt' = "none"
    /\ index' = 0
    /\ modsDir' = {}
    /\ minecraft_versions' =
          [minecraft_versions EXCEPT ![version] = DictUpdate(@, ModInfoDict)]
    /\ startPending' = startPending + 1
    /\ hist' = [hist EXCEPT !.modAnswer = "no", !.declined = "mods"]
    /\ UNCHANGED << screen, apmc, version, mod_info, download, crashed, notices >>
    /\ UNCHANGED << jdk, jars, sidecar, eula, saveFile, superVars >>
    /\ UNCHANGED << forgeVars, appVars >>

\* dont_update, the cancel of the mods prompt.
dont_update ==
    /\ MainIdle /\ prompt = "mods"
    /\ prompt' = "none"
    /\ index' = 0
    /\ minecraft_versions' =
          [minecraft_versions EXCEPT ![version] = DictUpdate(@, ModInfoDict)]
    /\ startPending' = startPending + 1
    /\ hist' = [hist EXCEPT !.modAnswer = "no", !.declined = "mods"]
    /\ UNCHANGED << screen, apmc, version, mod_info, download, crashed, notices >>
    /\ UNCHANGED << diskVars, superVars >>
    /\ UNCHANGED << forgeVars, appVars >>

-----------------------------------------------------------------------------
\* Downloader: the callbacks kivy's UrlRequest dispatches on the main thread
\* for a job j in flight.

\* jdk_error / server_jar_error: info_dialog and back to the Welcome screen.
\* cause tells what failed, the request ("network") or the write ("write").
DownloadErrorHandler(j, cause) ==
    IF j.kind = "mod"
    THEN \* next_mod passes no on_error: self.on_error(error) calls None
         /\ crashed' = TRUE
         /\ hist' = [hist EXCEPT !.failedMod = TRUE, !.failCause = cause,
                                 !.fail = "raised"]
         /\ UNCHANGED << notices, screen >>
    ELSE /\ notices' = notices \cup {j.kind}
         /\ screen' = "Welcome"
         /\ hist' = [hist EXCEPT !.failCause = cause, !.fail = "reported"]
         /\ UNCHANGED crashed

\* info_dialog: the popup stays until the user dismisses it.
info_dialog_ok ==
    /\ MainIdle
    /\ \E n \in notices : notices' = notices \ {n}
    /\ UNCHANGED << screen, prompt, apmc, minecraft_versions, version, mod_info,
                    index, download, startPending, crashed, hist >>
    /\ UNCHANGED << diskVars, superVars >>
    /\ UNCHANGED << forgeVars, appVars >>

\* The request of job j got an HTTP answer.
Answered(j) == ServedAt(j.url) # {}

\* on_redirect of a request answered with 3xx and a Location header: the
\* request is reissued against the URL the callback makes of it. cap bounds
\* the redirects one job is answered with.
Redirect(cap, callbacks) ==
    /\ MainIdle
    /\ \E j \in download :
        /\ j.on_redirect \in callbacks
        /\ Answered(j) /\ j.hops < cap
        /\ \E i \in ServedAt(j.url) : \E loc \in Locations(i) :
              download' = (download \ {j}) \cup
                  {Reissued(j, ReissueUrl(j.on_redirect, j.url, loc), j.hops + 1)}
        /\ UNCHANGED hist
    /\ UNCHANGED << screen, prompt, apmc, minecraft_versions, version, mod_info,
                    index, startPending, crashed, notices >>
    /\ UNCHANGED << diskVars, superVars >>
    /\ UNCHANGED << forgeVars, appVars >>

\* _download_redirect: the job reissues its request against the new URL.
download_redirect == Redirect(MaxRedirects, {"_download_redirect"})

\* _download_error: the request raised.
download_error ==
    /\ MainIdle
    /\ \E j \in download :
        /\ j.on_redirect = "_download_redirect"
        /\ download' = download \ {j}
        /\ DownloadErrorHandler(j, "network")
    /\ UNCHANGED << prompt, apmc, minecraft_versions, version, mod_info, index,
                    startPending >>
    /\ UNCHANGED << diskVars, superVars >>
    /\ UNCHANGED << forgeVars, appVars >>

\* The request ended with a 4xx/5xx status: UrlRequest has no on_failure
\* here, so only _download_finish runs.
download_failure ==
    /\ MainIdle
    /\ \E j \in download :
        /\ Answered(j)
        /\ download' = download \ {j}
        /\ hist' = [hist EXCEPT !.failedMod = @ \/ j.kind = "mod",
                                !.failCause = "network", !.fail = "silent"]
    /\ UNCHANGED << screen, prompt, apmc, minecraft_versions, version, mod_info,
                    index, startPending, crashed, notices >>
    /\ UNCHANGED << diskVars, superVars >>
    /\ UNCHANGED << forgeVars, appVars >>

\* _download_success with the file written (or the archive extracted), and
\* the job's on_success called.
download_success ==
    /\ MainIdle
    /\ \E j \in {x \in download : Answered(x) /\ x.on_redirect = "_download_redirect"} :
        \/ /\ j.kind = "jdk"
           /\ jdk' = TRUE
           /\ download' = download \ {j}
           /\ startPending' = startPending + 1
           /\ UNCHANGED hist
           /\ UNCHANGED << jars, modsDir, sidecar, mod_info, index >>
        \/ /\ j.kind = "jar"
           /\ jars' = jars \cup {j.name}
           /\ download' = download \ {j}
           /\ startPending' = startPending + 1
           /\ UNCHANGED hist
           /\ UNCHANGED << jdk, modsDir, sidecar, mod_info, index >>
        \/ /\ j.kind = "mod"
           /\ modsDir' = modsDir \cup {j.name}
           /\ next_mod(download \ {j}, hist)
           /\ UNCHANGED << jdk, jars >>
    /\ UNCHANGED << screen, prompt, apmc, minecraft_versions, version, crashed,
                    notices >>
    /\ UNCHANGED << eula, saveFile, superVars >>
    /\ UNCHANGED << forgeVars, appVars >>

\* _download_success whose open()/write() raised: on_error(e).
download_write_error ==
    /\ MainIdle
    /\ \E j \in download :
        /\ Answered(j)
        /\ j.kind \in {"jar", "mod"}
        /\ download' = download \ {j}
        /\ DownloadErrorHandler(j, "write")
    /\ UNCHANGED << prompt, apmc, minecraft_versions, version, mod_info, index,
                    startPending >>
    /\ UNCHANGED << diskVars, superVars >>
    /\ UNCHANGED << forgeVars, appVars >>

\* _extract whose thread raised (a bad archive, a write that failed): the
\* thread ends there, neither on_success nor on_error is called, and
\* _download_finish leaves on_finish uncalled for an extracting job.
download_extract_error ==
    /\ MainIdle
    /\ \E j \in download :
        /\ Answered(j)
        /\ j.kind = "jdk"
        /\ download' = download \ {j}
        /\ hist' = [hist EXCEPT !.failCause = "write", !.fail = "silent"]
    /\ UNCHANGED << screen, prompt, apmc, minecraft_versions, version, mod_info,
                    index, startPending, crashed, notices >>
    /\ UNCHANGED << diskVars, superVars >>
    /\ UNCHANGED << forgeVars, appVars >>

-----------------------------------------------------------------------------
\* server_thread, the child it starts, and the queuer threads of
\* stream_server_output.

ExitEvent == [level |-> "RAW", msg |-> "Minecraft server has exited."]
StartingEvent == [level |-> "INFO", msg |-> "Starting Minecraft"]

\* (mutant) server_thread writing save.apmc whether or not it is there.
write_save_always(sf, d) == save_apmc(d)

\* "if not os.path.isfile(save_path): json.dump(self.apmc, file)": sf is
\* save.apmc in the world directory of the descriptor (NoApmc: no such file).
\* The descriptors of the model share one seed name and player id, hence
\* one world directory.
write_save(sf, d) == IF sf = NoApmc THEN save_apmc(d) ELSE sf

\* From the top of server_thread to the start of the two queuer threads.
\* runnable: the operating system can execute the java binary.
server_thread_begin ==
    /\ srvPc = "start"
    /\ status' = STOPPED
    /\ saveFile' = write_save(saveFile, apmc)
    /\ \E runnable \in BOOLEAN :
       IF get_jdk /\ get_server_jar /\ runnable
       THEN /\ child' = "alive"
            /\ written' = 0
            /\ pipe' = [s \in Streams |-> << >>]
            /\ rdPc' = [s \in Streams |-> "poll"]
            /\ queue' = << >>
            /\ srvPc' = "loop"
       ELSE \* Popen raises (an executable or jar of None, a binary that
            \* cannot be run) and the exception ends the thread
            /\ srvPc' = "dead"
            /\ UNCHANGED << child, written, pipe, rdPc, queue >>
    /\ hist' = [hist EXCEPT !.exitSeen = FALSE, !.s2s = 0, !.prev = STOPPED,
                            !.lastLine = NoLine]
    /\ UNCHANGED << statusText, stop, log >>
    /\ UNCHANGED << clientVars, jdk, jars, modsDir, sidecar, eula >>
    /\ UNCHANGED << forgeVars, appVars >>

\* What the exit branch of the loop assigns to self.status.
StatusOnExit(st) == st

\* while not self.stop.is_set(): if self.server.poll() is not None: ...
server_thread_poll ==
    /\ srvPc = "loop"
    /\ IF stop
       THEN /\ srvPc' = "done"
            /\ UNCHANGED << log, stop, statusText, status, hist >>
       ELSE /\ srvPc' = "drain"
            /\ IF child = "exited"
               THEN /\ log' = Append(log, ExitEvent)
                    /\ stop' = TRUE
                    /\ statusText' = "Server Stopped"
                    /\ status' = StatusOnExit(status)
                    /\ hist' = [hist EXCEPT !.exitSeen = TRUE,
                                            !.exitStatus = status]
               ELSE /\ UNCHANGED << log, stop, statusText, status, hist >>
    /\ UNCHANGED << child, written, pipe, rdPc, queue >>
    /\ UNCHANGED << clientVars, diskVars >>
    /\ UNCHANGED << forgeVars, appVars >>

\* (mutant) a queue whose get() hands out the newest line first.
queue_get_lifo(q) ==
    [item |-> q[Len(q)], rest |-> SubSeq(q, 1, Len(q) - 1)]

\* server_queue = Queue(); server_queue.get(): queue.Queue is first in, first
\* out, get() removes and returns the oldest line.
queue_get(q) ==
    [item |-> Head(q), rest |-> Tail(q)]

\* One pass of "while not server_queue.empty()": get a line, log it, run the
\* status block on it.
server_thread_line ==
    /\ srvPc = "drain" /\ queue # << >>
    /\ LET line == queue_get(queue).item
           starting == status < RUNNING /\ server_starting_match(line)
           st == StatusAfterLine(status, line)
       IN  /\ queue' = queue_get(queue).rest
           /\ log' = IF starting
                     THEN log \o << LogEvent(line), StartingEvent >>
                     ELSE Append(log, LogEvent(line))
           /\ minecraft_versions' =
                 IF starting
                 THEN [minecraft_versions EXCEPT ![version].minecraft = line.ver]
                 ELSE minecraft_versions
           /\ status' = st
           /\ statusText' = IF st = status /\ ~starting THEN statusText
                            ELSE IF st = RUNNING THEN "Server Running"
                            ELSE "Starting Server"
           /\ hist' = [hist EXCEPT
                          !.s2s = IF status = STOPPED /\ st = STARTING THEN @ + 1 ELSE @,
                          !.prev = status, !.lastLine = line]
    /\ UNCHANGED << srvPc, stop, child, written, pipe, rdPc >>
    /\ UNCHANGED << screen, prompt, apmc, version, mod_info, index, download,
                    startPending, crashed, notices >>
    /\ UNCHANGED diskVars
    /\ UNCHANGED << forgeVars, appVars >>

\* The queue is empty: time.sleep(0.01) and back to the loop condition.
server_thread_sleep ==
    /\ srvPc = "drain" /\ queue = << >>
    /\ srvPc' = "loop"
    /\ UNCHANGED << status, statusText, stop, child, written, pipe, rdPc,
                    queue, log, hist >>
    /\ UNCHANGED << clientVars, diskVars >>
    /\ UNCHANGED << forgeVars, appVars >>

\* queuer of one stream: "while process.poll() is None".
queuer_poll ==
    /\ \E s \in Streams :
        /\ rdPc[s] = "poll"
        /\ rdPc' = [rdPc EXCEPT ![s] = IF child = "alive" THEN "readline" ELSE "done"]
    /\ UNCHANGED << srvPc, status, statusText, stop, child, written, pipe,
                    queue, log, hist >>
    /\ UNCHANGED << clientVars, diskVars >>
    /\ UNCHANGED << forgeVars, appVars >>

\* queuer of one stream: pipe.readline() returns a line, which is queued, or
\* returns '' at end of file (the child has exited and the pipe is drained).
queuer_readline ==
    /\ \E s \in Streams :
        /\ rdPc[s] = "readline"
        /\ \/ /\ pipe[s] # << >>
              /\ pipe' = [pipe EXCEPT ![s] = Tail(@)]
              /\ queue' = Append(queue, Head(pipe[s]))
           \/ /\ pipe[s] = << >> /\ child = "exited"
              /\ UNCHANGED << pipe, queue >>
        /\ rdPc' = [rdPc EXCEPT ![s] = "poll"]
    /\ UNCHANGED << srvPc, status, statusText, stop, child, written, log,
                    hist >>
    /\ UNCHANGED << clientVars, diskVars >>
    /\ UNCHANGED << forgeVars, appVars >>

\* The child writes one more line to one of its output streams.
child_write ==
    /\ child = "alive" /\ written < MaxLines
    /\ \E s \in Streams, line \in ChildLines :
        /\ pipe' = [pipe EXCEPT ![s] = Append(@, line)]
        /\ written' = written + 1
    /\ UNCHANGED << srvPc, status, statusText, stop, child, rdPc, queue,
                    log, hist >>
    /\ UNCHANGED << clientVars, diskVars >>
    /\ UNCHANGED << forgeVars, appVars >>

\* The child exits. Its return code is left out: the client only asks
\* whether poll() is None.
child_exit ==
    /\ child = "alive"
    /\ child' = "exited"
    /\ UNCHANGED << srvPc, status, statusText, stop, written, pipe, rdPc, queue,
                    log, hist >>
    /\ UNCHANGED << clientVars, diskVars >>
    /\ UNCHANGED << forgeVars, appVars >>

-----------------------------------------------------------------------------
\* The application is constructed (__init__ has read ap-version.json) and the
\* version manifest is loaded. The install directory is in one of the states
\* earlier runs leave behind.
InstalledDirs ==
    { [sidecar |-> Empty, modsDir |-> {}],
      [sidecar |-> Catalog[1], modsDir |-> Range(Catalog[1].mods)] }

\* The state after construction, the versions manifest and the save file of
\* the world directory apart.
InitBase ==
    /\ screen = "Welcome" /\ prompt = "none" /\ apmc = NoApmc
    /\ version = 0
    /\ \E d \in InstalledDirs :
        /\ sidecar = d.sidecar
        /\ modsDir = d.modsDir
        /\ mod_info = [ref |-> 0, val |-> d.sidecar]
    /\ index = 0 /\ download = {} /\ startPending = 0
    /\ crashed = FALSE /\ notices = {}
    /\ jdk \in BOOLEAN
    /\ jars \in {{}, {"1.19"}}
    /\ eula \in EulaTexts
    /\ srvPc = "none" /\ status = STOPPED /\ statusText = "none" /\ stop = FALSE
    /\ child = "none" /\ written = 0
    /\ pipe = [s \in Streams |-> << >>]
    /\ rdPc = [s \in Streams |-> "none"]
    /\ queue = << >> /\ log = << >>
    /\ fPc = "none" /\ jdk_executable = FALSE /\ forge_dir = "absent"
    /\ exit_event = FALSE /\ ui_task = "none"
    /\ closing = FALSE /\ terminal = FALSE /\ stdin = << >>
    /\ hist = [NoHist EXCEPT !.fresh = (~jdk /\ jars = {} /\ sidecar = Empty)]

\* The state once the versions manifest has been fetched and stored.
Init ==
    /\ InitBase
    /\ saveFile = NoApmc
    /\ minecraft_versions = Catalog
    /\ manifest = "done" /\ cache = TRUE

Next ==
    \/ open_apmc
    \/ start_server
    \/ set_description
    \/ eula_yes
    \/ eula_no
    \/ update_mod_list
    \/ dont_update
    \/ info_dialog_ok
    \/ download_redirect
    \/ download_error
    \/ download_failure
    \/ download_success
    \/ download_write_error
    \/ download_extract_error
    \/ server_thread_begin
    \/ server_thread_poll
    \/ server_thread_line
    \/ server_thread_sleep
    \/ queuer_poll
    \/ queuer_readline
    \/ child_write
    \/ child_exit

Spec == Init /\ [][Next]_vars

-----------------------------------------------------------------------------
\* The fabric client: commands to the child and the window's close request.

\* send_command(cmd): stdin.write(cmd + newline) and flush; any exception
\* (self.server is None, the pipe is closed) is swallowed.
send_command(cmd) == IF child = "alive" THEN Append(stdin, cmd) ELSE stdin

\* ServerWindow.send_command: the user enters a command on the Server screen.
server_window_send_command ==
    /\ MainIdle /\ screen = "Server" /\ Len(stdin) < MaxCommands
    /\ stdin' = send_command("say")
    /\ hist' = [hist EXCEPT !.sentDead = @ \/ child # "alive"]
    /\ UNCHANGED << closing, terminal, manifest, cache >>
    /\ UNCHANGED << clientVars, diskVars, superVars, forgeVars >>

\* on_request_close: the user asks the window to close.
on_request_close ==
    /\ MainIdle /\ ~closing /\ Len(stdin) < MaxCommands
    /\ IF status = RUNNING
       THEN /\ stdin' = send_command("stop")
            /\ closing' = TRUE
            /\ UNCHANGED terminal
       ELSE /\ terminal' = TRUE
            /\ UNCHANGED << stdin, closing >>
    /\ UNCHANGED << manifest, cache, hist >>
    /\ UNCHANGED << clientVars, diskVars, superVars, forgeVars >>

\* close(dt), one tick of the 1/60 s interval that finds the stop event set.
close ==
    /\ MainIdle /\ closing /\ stop
    /\ terminal' = TRUE
    /\ UNCHANGED << closing, stdin, manifest, cache, hist >>
    /\ UNCHANGED << clientVars, diskVars, superVars, forgeVars >>

\* A fully provisioned install directory, as a session of Init leaves it.
InitClose ==
    /\ Init
    /\ jdk /\ jars = {"1.19"} /\ eula = "true" /\ sidecar = Catalog[1]

\* Over such a directory no EULA prompt and no dialog is ever raised, so the
\* handlers of those are left out of the step relation.
NextClose ==
    \/ open_apmc
    \/ start_server
    \/ set_description
    \/ update_mod_list
    \/ dont_update
    \/ download_redirect
    \/ download_error
    \/ download_failure
    \/ download_success
    \/ download_write_error
    \/ server_thread_begin
    \/ server_thread_poll
    \/ server_thread_line
    \/ server_thread_sleep
    \/ queuer_poll
    \/ queuer_readline
    \/ child_write
    \/ child_exit
    \/ server_window_send_command
    \/ on_request_close
    \/ close

SpecClose == InitClose /\ [][NextClose]_vars

\* The threads of the client are scheduled and the Clock interval fires; the
\* child is under no obligation to exit.
ClientFairness ==
    /\ WF_vars(close)
    /\ WF_vars(start_server)
    /\ WF_vars(server_thread_begin)
    /\ WF_vars(server_thread_poll)
    /\ WF_vars(server_thread_line)
    /\ WF_vars(server_thread_sleep)
    /\ WF_vars(queuer_poll)
    /\ WF_vars(queuer_readline)

SpecCloseFair == SpecClose /\ ClientFairness

-----------------------------------------------------------------------------
\* The fabric client: the versions manifest requested by build().

\* process_versions, the on_success of the request: body is what json.loads
\* makes of the result. An unparsable body raises in the callback; a parsed
\* one replaces self.minecraft_versions and is written to the cache file.
process_versions ==
    /\ MainIdle /\ manifest = "pending"
    /\ \E body \in {"ok", "nochannel", "unparsable"} :
        IF body = "unparsable"
        THEN /\ crashed' = TRUE
             /\ manifest' = "unparsable"
             /\ UNCHANGED << minecraft_versions, cache >>
        ELSE /\ minecraft_versions' = IF body = "ok" THEN Catalog ELSE << >>
             /\ manifest' = IF body = "ok" THEN "done" ELSE "nochannel"
             /\ cache' = TRUE
             /\ UNCHANGED crashed
    /\ UNCHANGED << screen, prompt, apmc, version, mod_info, index, download,
                    startPending, notices, hist >>
    /\ UNCHANGED << closing, terminal, stdin >>
    /\ UNCHANGED << diskVars, superVars, forgeVars >>

\* process_local_versions, the on_failure of the request (a 4xx or 5xx
\* status): the cache file is loaded if it is there, else a dialog and an
\* error line tell that no versions file was found.
process_local_versions ==
    /\ MainIdle /\ manifest = "pending"
    /\ IF cache
       THEN /\ minecraft_versions' = Catalog
            /\ manifest' = "done"
            /\ UNCHANGED << notices, hist >>
       ELSE /\ notices' = notices \cup {"catalog"}
            /\ manifest' = "unavailable"
            /\ hist' = [hist EXCEPT !.catalogReported = TRUE]
            /\ UNCHANGED minecraft_versions
    /\ UNCHANGED << screen, prompt, apmc, version, mod_info, index, download,
                    startPending, crashed >>
    /\ UNCHANGED << closing, terminal, stdin, cache >>
    /\ UNCHANGED << diskVars, superVars, forgeVars >>

\* The request ended in a transport error: build() binds no on_error, so no
\* callback of the client runs.
request_error ==
    /\ MainIdle /\ manifest = "pending"
    /\ manifest' = "error"
    /\ UNCHANGED << closing, terminal, stdin, cache, hist >>
    /\ UNCHANGED << clientVars, diskVars, superVars, forgeVars >>

\* build() over a provisioned install directory: the request is in flight,
\* self.minecraft_versions is still empty, the cache file may be there.
InitCatalog ==
    /\ InitBase
    /\ saveFile = NoApmc
    /\ jdk /\ jars = {"1.19"} /\ eula = "true" /\ sidecar = Catalog[1]
    /\ minecraft_versions = << >>
    /\ manifest = "pending" /\ cache \in BOOLEAN

NextCatalog ==
    \/ process_versions
    \/ process_local_versions
    \/ request_error
    \/ open_apmc
    \/ info_dialog_ok
    \/ start_server
    \/ set_description
    \/ update_mod_list
    \/ dont_update
    \/ download_redirect
    \/ download_error
    \/ download_failure
    \/ download_success
    \/ download_write_error
    \/ server_thread_begin
    \/ server_thread_poll
    \/ server_thread_line
    \/ server_thread_sleep
    \/ queuer_poll
    \/ queuer_readline
    \/ child_write
    \/ child_exit

SpecCatalog == InitCatalog /\ [][NextCatalog]_vars

-----------------------------------------------------------------------------
\* The fabric client started on a directory an earlier run has launched a
\* world in: provisioned, with the save.apmc of that world.
InitSave ==
    /\ InitBase
    /\ jdk /\ jars = {"1.19"} /\ eula = "true" /\ sidecar = Catalog[1]
    /\ minecraft_versions = Catalog
    /\ manifest = "done" /\ cache = TRUE
    /\ saveFile \in {save_apmc(d) : d \in {x \in Descriptors : x.description}}

NextSave ==
    \/ open_apmc
    \/ start_server
    \/ set_description
    \/ update_mod_list
    \/ dont_update
    \/ download_redirect
    \/ download_error
    \/ download_failure
    \/ download_success
    \/ download_write_error
    \/ server_thread_begin
    \/ server_thread_poll
    \/ server_thread_line
    \/ server_thread_sleep
    \/ queuer_poll
    \/ queuer_readline
    \/ child_write
    \/ child_exit

SpecSave == InitSave /\ [][NextSave]_vars

-----------------------------------------------------------------------------
\* Redirect chains. The fabric client with its Downloader answered with up to
\* MaxChain redirects in a row, and the mcfabric client, whose UrlRequests
\* carry the callbacks jdk_redirect and server_jar_redirect, from the moment
\* start_server has issued the first request a session needs.

download_redirect_chain == Redirect(MaxChain, {"_download_redirect"})

mcfabric_jdk_redirect == Redirect(MaxChain, {"jdk_redirect"})

mcfabric_server_jar_redirect == Redirect(MaxChain, {"server_jar_redirect"})

\* jdk_error / server_jar_error of the mcfabric client: info_dialog and
\* log_error; the request is over.
mcfabric_request_error(cb) ==
    /\ MainIdle
    /\ \E j \in download :
        /\ j.on_redirect = cb
        /\ download' = download \ {j}
        /\ notices' = notices \cup {j.kind}
        /\ log' = Append(log, [level |-> "ERROR", msg |-> "download error"])
    /\ UNCHANGED << screen, prompt, apmc, minecraft_versions, version, mod_info,
                    index, startPending, crashed, hist >>
    /\ UNCHANGED << srvPc, status, statusText, stop, child, written, pipe, rdPc,
                    queue >>
    /\ UNCHANGED << diskVars, forgeVars, appVars >>

mcfabric_jdk_error == mcfabric_request_error("jdk_redirect")

mcfabric_server_jar_error == mcfabric_request_error("server_jar_redirect")

\* start_server_check_server_jar of the mcfabric client, given the jars in
\* the server directory: download_server_jar, or the server thread.
mcfabric_check_server_jar(present) ==
    IF get_server_jar_name \in present
    THEN /\ download' = {}
         /\ srvPc' = "start"
    ELSE /\ download' = {Request(1, "jar", get_server_jar_name, "server_jar_redirect")}
         /\ UNCHANGED srvPc

\* jdk_extract with the archive extracted, then finish_jdk_extract.
mcfabric_jdk_extract ==
    /\ MainIdle
    /\ \E j \in download :
        /\ j.on_redirect = "jdk_redirect" /\ Answered(j)
        /\ \E root \in ArchiveRoots :
            LET files == jdk_extract(namelist(root))
            IN  /\ jdk' = (jdk \/ mcfabric_get_jdk_in(files))
                /\ hist' = [hist EXCEPT !.archive = root, !.extracted = files]
        /\ mcfabric_check_server_jar(jars)
    /\ UNCHANGED << screen, prompt, apmc, minecraft_versions, version, mod_info,
                    index, startPending, crashed, notices >>
    /\ UNCHANGED << jars, modsDir, sidecar, eula, saveFile >>
    /\ UNCHANGED << status, statusText, stop, child, written, pipe, rdPc,
                    queue, log >>
    /\ UNCHANGED << forgeVars, appVars >>

\* server_jar_run: the jar is written and start_server_check_server_jar runs
\* again, or the write raised and info_dialog tells so.
mcfabric_server_jar_run ==
    /\ MainIdle
    /\ \E j \in download :
        /\ j.on_redirect = "server_jar_redirect" /\ Answered(j)
        /\ \E written_ok \in BOOLEAN :
            IF written_ok
            THEN /\ jars' = jars \cup {j.name}
                 /\ mcfabric_check_server_jar(jars \cup {j.name})
                 /\ UNCHANGED << notices, log >>
            ELSE /\ download' = download \ {j}
                 /\ notices' = notices \cup {j.kind}
                 /\ log' = Append(log, [level |-> "ERROR", msg |-> "error writing server jar"])
                 /\ UNCHANGED << jars, srvPc >>
    /\ UNCHANGED << screen, prompt, apmc, minecraft_versions, version, mod_info,
                    index, startPending, crashed, hist >>
    /\ UNCHANGED << jdk, modsDir, sidecar, eula, saveFile >>
    /\ UNCHANGED << status, statusText, stop, child, written, pipe, rdPc, queue >>
    /\ UNCHANGED << forgeVars, appVars >>

\* The mcfabric client after start_server(apmc) has found the version and
\* issued the request for the first thing its server directory lacks.
InitMcfabric ==
    /\ manifest = "done" /\ cache = TRUE
    /\ minecraft_versions = Catalog
    /\ screen = "Server" /\ prompt = "none"
    /\ apmc \in {d \in Descriptors : VersionLookup(d) = "found"}
    /\ version = apmc.client_version
    /\ mod_info = [ref |-> 0, val |-> Empty]
    /\ index = 0 /\ startPending = 0
    /\ crashed = FALSE /\ notices = {}
    /\ jdk \in BOOLEAN
    /\ jars = {} /\ modsDir = {} /\ sidecar = Empty
    /\ eula \in EulaTexts /\ saveFile = NoApmc
    /\ download = {Request(1, IF jdk THEN "jar" ELSE "jdk",
                               IF jdk THEN get_server_jar_name ELSE "jdk",
                               IF jdk THEN "server_jar_redirect" ELSE "jdk_redirect")}
    /\ srvPc = "none" /\ status = STOPPED /\ statusText = "none" /\ stop = FALSE
    /\ child = "none" /\ written = 0
    /\ pipe = [s \in Streams |-> << >>]
    /\ rdPc = [s \in Streams |-> "none"]
    /\ queue = << >> /\ log = << >>
    /\ fPc = "none" /\ jdk_executable = FALSE /\ forge_dir = "absent"
    /\ exit_event = FALSE /\ ui_task = "none"
    /\ closing = FALSE /\ terminal = FALSE /\ stdin = << >>
    /\ hist = NoHist

InitRedirect == Init \/ InitMcfabric

NextRedirect ==
    \/ open_apmc
    \/ start_server
    \/ info_dialog_ok
    \/ download_redirect_chain
    \/ download_error
    \/ download_success
    \/ mcfabric_jdk_redirect
    \/ mcfabric_server_jar_redirect
    \/ mcfabric_jdk_error
    \/ mcfabric_server_jar_error
    \/ mcfabric_jdk_extract
    \/ mcfabric_server_jar_run

SpecRedirect == InitRedirect /\ [][NextRedirect]_vars

-----------------------------------------------------------------------------
\* A degenerate download site: every request is answered with a redirect, the
\* two resources of host a pointing at each other. The clients keep no count
\* of the redirects a job has followed; hops, which exists to state properties,
\* stops counting at MaxChain.

CycleLocation(i) == ResourcePath((i + 1) % 2)

RedirectCycle(callbacks) ==
    /\ MainIdle
    /\ \E j \in download :
        /\ j.on_redirect \in callbacks
        /\ \E i \in ServedAt(j.url) :
              download' = (download \ {j}) \cup
                  {Reissued(j, ReissueUrl(j.on_redirect, j.url, CycleLocation(i)),
                            IF j.hops < MaxChain THEN j.hops + 1 ELSE j.hops)}
        /\ UNCHANGED hist
    /\ UNCHANGED << screen, prompt, apmc, minecraft_versions, version, mod_info,
                    index, startPending, crashed, notices >>
    /\ UNCHANGED << diskVars, superVars >>
    /\ UNCHANGED << forgeVars, appVars >>

download_redirect_cycle == RedirectCycle({"_download_redirect"})

mcfabric_redirect_cycle == RedirectCycle({"jdk_redirect", "server_jar_redirect"})

NextCycle ==
    \/ open_apmc
    \/ start_server
    \/ download_redirect_cycle
    \/ mcfabric_redirect_cycle

SpecCycle == InitRedirect /\ [][NextCycle]_vars

\* kivy dispatches the callbacks of a finished request and the scheduled
\* start_server calls on the main thread.
CycleFairness ==
    /\ WF_vars(start_server)
    /\ WF_vars(download_redirect_cycle)
    /\ WF_vars(mcfabric_redirect_cycle)

SpecCycleFair == SpecCycle /\ CycleFairness

-----------------------------------------------------------------------------
\* Download progress. kivy calls on_progress with the bytes of the response
\* received so far and its total size, for every response, a redirect
\* included; the bytes received never decrease within one request.

\* The (current_size, total_size) pairs the next on_progress of job j may
\* carry.
ProgressReports(j) ==
    { << r, t >> \in (0..2) \X Totals :
         /\ j.total # NoResponse => t = j.total
         /\ r >= j.recv
         /\ t >= 0 => r <= t }

\* Downloader._download_progress: the percentage when the total is known,
\* 100 otherwise.
download_progress_value(old, current_size, total_size) ==
    IF total_size > 0 THEN (current_size * 100) \div total_size ELSE 100

\* server_jar_download_progress / jdk_download_progress of the mcfabric
\* client: the percentage when the total is known, nothing otherwise.
server_jar_download_progress_value(old, current_size, total_size) ==
    IF total_size > 0 THEN (current_size * 100) \div total_size ELSE old

Progress(callbacks) ==
    /\ MainIdle
    /\ \E j \in download :
        /\ j.on_redirect \in callbacks
        /\ Answered(j)
        /\ \E rep \in ProgressReports(j) :
              download' = (download \ {j}) \cup
                 {[j EXCEPT !.recv = rep[1], !.total = rep[2],
                            !.progress =
                               IF j.on_redirect = "_download_redirect"
                               THEN download_progress_value(@, rep[1], rep[2])
                               ELSE server_jar_download_progress_value(@, rep[1], rep[2])]}
        /\ UNCHANGED hist
    /\ UNCHANGED << screen, prompt, apmc, minecraft_versions, version, mod_info,
                    index, startPending, crashed, notices >>
    /\ UNCHANGED << diskVars, superVars >>
    /\ UNCHANGED << forgeVars, appVars >>

download_progress == Progress({"_download_redirect"})

mcfabric_download_progress == Progress({"jdk_redirect", "server_jar_redirect"})

NextProgress ==
    \/ NextRedirect
    \/ download_progress
    \/ mcfabric_download_progress

SpecProgress == InitRedirect /\ [][NextProgress]_vars

-----------------------------------------------------------------------------
\* The name _download_success writes a file under. File names, header values
\* and URLs are texts here; the directories of the model hold names.

\* The text of a file name.
NameText(n) ==
    CASE n = "a.jar" -> << "a", ".", "j", "a", "r" >>
      [] n = "b.jar" -> << "b", ".", "j", "a", "r" >>
      [] OTHER       -> << "1", ".", "1", "9" >>

FileNames == {"a.jar", "b.jar", "1.19"}

\* The name a text is the text of; a text that is the text of none of the
\* names of the model names some other file.
TextName(t) ==
    IF \E n \in FileNames : NameText(n) = t
    THEN CHOOSE n \in FileNames : NameText(n) = t
    ELSE "other"

\* A Content-Disposition header as the server makes it: "attachment", the
\* filename parameter (if any) as a token or as a quoted string, then for
\* some servers a further parameter.
Dispositions == [filename : {"none", "a.jar", "b.jar"}, quoted : BOOLEAN,
                 more : BOOLEAN]

FilenameEq == << "f", "i", "l", "e", "n", "a", "m", "e", "=" >>

DispositionText(h) ==
    << "a", "t", "t", "a", "c", "h", "m", "e", "n", "t" >>
    \o (IF h.filename = "none" THEN << >>
        ELSE << ";", " " >> \o FilenameEq
             \o (IF h.quoted THEN << "\"" >> \o NameText(h.filename) \o << "\"" >>
                 ELSE NameText(h.filename)))
    \o (IF h.more THEN << ";", " ", "s", "i", "z", "e", "=", "1" >> ELSE << >>)

\* The text p occurs in the text t at position k.
OccursAt(t, p, k) ==
    k + Len(p) - 1 <= Len(t) /\ SubSeq(t, k, k + Len(p) - 1) = p

\* The first position p occurs at in t, 0 if it does not occur.
FindText(t, p) ==
    IF \E k \in 1..Len(t) : OccursAt(t, p, k)
    THEN CHOOSE k \in 1..Len(t) :
            OccursAt(t, p, k) /\ \A m \in 1..(k - 1) : ~OccursAt(t, p, m)
    ELSE 0

\* t.split(sep)[1]: what lies between the first and the second occurrence of
\* sep; IndexError when sep does not occur.
split_1(t, sep) ==
    LET k == FindText(t, sep)
        rest == SubSeq(t, k + Len(sep), Len(t))
        m == FindText(rest, sep)
    IN  IF k = 0 THEN [ok |-> FALSE, text |-> << >>]
        ELSE [ok |-> TRUE,
              text |-> IF m = 0 THEN rest ELSE SubSeq(rest, 1, m - 1)]

\* t.strip(c) for one character c.
RECURSIVE strip(_, _)
strip(t, c) ==
    IF t # << >> /\ Head(t) = c THEN strip(Tail(t), c)
    ELSE IF t # << >> /\ t[Len(t)] = c THEN strip(SubSeq(t, 1, Len(t) - 1), c)
    ELSE t

\* os.path.basename: what follows the last "/".
os_path_basename(u) ==
    LET ks == {k \in 1..Len(u) : u[k] = "/"}
    IN  IF ks = {} THEN u
        ELSE SubSeq(u, (CHOOSE k \in ks : \A m \in ks : m <= k) + 1, Len(u))

\* The URL of the request of job j, the name of the file it asks for being
\* its last segment.
RequestUrl(j) == j.url \o << "/" >> \o NameText(j.name)

\* self.file_name of the Downloader of job j: get_server_jar passes
\* file_name=self.get_server_jar_name(), next_mod passes none.
FileNameOverride(j) == IF j.kind = "jar" THEN NameText(j.name) ELSE << >>

\* The file name of _download_success: override is self.file_name (empty for
\* None), disposition the Content-Disposition header (empty for none).
download_file_name(override, disposition, url) ==
    IF override # << >> THEN [ok |-> TRUE, text |-> override]
    ELSE IF disposition # << >>
    THEN LET part == split_1(disposition, FilenameEq)
         IN  [ok |-> part.ok, text |-> strip(part.text, "\"")]
    ELSE [ok |-> TRUE, text |-> os_path_basename(url)]

\* _download_success of a non-extracting job whose response carries a
\* Content-Disposition header: the file is written under the name made of
\* it and on_success runs; an IndexError leaves the callback.
download_success_disposition ==
    /\ MainIdle
    /\ \E j \in {x \in download : Answered(x) /\ x.on_redirect = "_download_redirect"} :
       \E h \in Dispositions :
        LET fn == download_file_name(FileNameOverride(j), DispositionText(h),
                                     RequestUrl(j))
            hst == [hist EXCEPT !.fetch = [kind |-> j.kind, name |-> j.name,
                                           header |-> h.filename],
                                !.named = IF fn.ok THEN TextName(fn.text)
                                          ELSE "raised"]
        IN  /\ j.kind \in {"jar", "mod"}
            /\ IF ~fn.ok
               THEN /\ crashed' = TRUE
                    /\ download' = download \ {j}
                    /\ hist' = hst
                    /\ UNCHANGED << jars, modsDir, sidecar, mod_info, index,
                                    startPending >>
               ELSE IF j.kind = "jar"
               THEN /\ jars' = jars \cup {TextName(fn.text)}
                    /\ download' = download \ {j}
                    /\ startPending' = startPending + 1
                    /\ hist' = hst
                    /\ UNCHANGED << modsDir, sidecar, mod_info, index, crashed >>
               ELSE /\ modsDir' = modsDir \cup {TextName(fn.text)}
                    /\ next_mod(download \ {j}, hst)
                    /\ UNCHANGED << jars, crashed >>
    /\ UNCHANGED << screen, prompt, apmc, minecraft_versions, version, notices >>
    /\ UNCHANGED << jdk, eula, saveFile, superVars >>
    /\ UNCHANGED << forgeVars, appVars >>

\* The fabric client with servers that send Content-Disposition.
InitFileName == Init /\ jdk /\ eula = "true"

NextFileName ==
    \/ open_apmc
    \/ start_server
    \/ update_mod_list
    \/ dont_update
    \/ download_success
    \/ download_success_disposition

SpecFileName == InitFileName /\ [][NextFileName]_vars

-----------------------------------------------------------------------------
\* Extraction of the runtime, whatever the root folder of the archive.

\* _download_success of an extracting job, _extract and its thread done:
\* the files are written below the server directory and on_success
\* (start_server) is called.
download_extract ==
    /\ MainIdle
    /\ \E j \in {x \in download : Answered(x) /\ x.on_redirect = "_download_redirect"} :
        /\ j.kind = "jdk"
        /\ \E root \in ArchiveRoots :
            LET files == Downloader_extract(namelist(root))
            IN  /\ jdk' = (jdk \/ get_jdk_in(files))
                /\ hist' = [hist EXCEPT !.archive = root, !.extracted = files]
        /\ download' = download \ {j}
        /\ startPending' = startPending + 1
    /\ UNCHANGED << screen, prompt, apmc, minecraft_versions, version, mod_info,
                    index, crashed, notices >>
    /\ UNCHANGED << jars, modsDir, sidecar, eula, saveFile, superVars >>
    /\ UNCHANGED << forgeVars, appVars >>

NextExtract ==
    \/ open_apmc
    \/ start_server
    \/ download_extract
    \/ mcfabric_jdk_extract

SpecExtract == InitRedirect /\ [][NextExtract]_vars

-----------------------------------------------------------------------------
\* start_server as the dependency resolution of one session, applied to every
\* install directory: a session is open on the Server screen with one call of
\* start_server scheduled, and after a pass that found every check satisfied
\* start_server is called once more.

\* The install directories of InstalledDirs and the one a confirmed update to
\* the second catalog entry leaves behind.
EnsureDirs ==
    InstalledDirs \cup {[sidecar |-> Catalog[2], modsDir |-> Range(Catalog[2].mods)]}

InitEnsure ==
    /\ screen = "Server" /\ prompt = "none"
    /\ minecraft_versions = Catalog
    /\ version \in DOMAIN Catalog
    /\ apmc \in {d \in Descriptors : d.client_version = Catalog[version].version}
    /\ \E d \in EnsureDirs :
        /\ sidecar = d.sidecar
        /\ modsDir = d.modsDir
        /\ mod_info = [ref |-> 0, val |-> d.sidecar]
    /\ index = 0 /\ download = {} /\ startPending = 1
    /\ crashed = FALSE /\ notices = {}
    /\ jdk \in BOOLEAN
    /\ jars \in {{}, {"1.19"}}
    /\ eula \in EulaTexts
    /\ saveFile = NoApmc
    /\ srvPc = "none" /\ status = STOPPED /\ statusText = "none" /\ stop = FALSE
    /\ child = "none" /\ written = 0
    /\ pipe = [s \in Streams |-> << >>]
    /\ rdPc = [s \in Streams |-> "none"]
    /\ queue = << >> /\ log = << >>
    /\ fPc = "none" /\ jdk_executable = FALSE /\ forge_dir = "absent"
    /\ exit_event = FALSE /\ ui_task = "none"
    /\ closing = FALSE /\ terminal = FALSE /\ stdin = << >>
    /\ manifest = "done" /\ cache = TRUE
    /\ hist = NoHist

\* self.start_server() is called again after the pass that started the
\* server thread, with nothing else done in between.
start_server_again ==
    /\ MainIdle /\ startPending = 0 /\ srvPc = "start" /\ hist.launches < 2
    /\ startPending' = startPending + 1
    /\ UNCHANGED << screen, prompt, apmc, minecraft_versions, version, mod_info,
                    index, download, crashed, notices, hist >>
    /\ UNCHANGED << diskVars, superVars, forgeVars, appVars >>

NextEnsure ==
    \/ start_server
    \/ start_server_again

SpecEnsure == InitEnsure /\ [][NextEnsure]_vars

-----------------------------------------------------------------------------
\* The forge client, worlds/minecraft/Client.py. The install directory is
\* forge_dir (jdk, modsDir and eula are its jdk<java>/bin/java, mods/ and
\* eula.txt), prompt is ctx._messagebox, and the child, its streams and the
\* queuer threads of stream_minecraft_output are those above.

\* The randomizer mod the catalog names (os.path.basename(mod_url)) and an
\* older release of it.
ModUrlName == "aprandomizer-2.jar"
OldModName == "aprandomizer-1.jar"

\* ctx.confirm_up: set by gui_confirm, cleared when the popup is dismissed.
confirm_up == prompt \in {"update_mod", "check_eula"}

\* find_ap_randomizer_jar
find_ap_randomizer_jar ==
    IF \E f \in modsDir : f \in {ModUrlName, OldModName}
    THEN CHOOSE f \in modsDir : f \in {ModUrlName, OldModName}
    ELSE "None"

\* The except branch of prepare_server and of minecraft_launch_server.
ForgeErrorEvent(msg) == [level |-> "ERROR", msg |-> msg]

\* What requests.get(jdk_url, allow_redirects=False) meets in
\* is_jdk_up_to_date: a 302 to the installed version ("same") or to another
\* one ("newer"), another status ("no_redirect"), or a request that raises
\* ("unreachable").
JdkChecks == {"same", "newer", "no_redirect", "unreachable"}

\* is_jdk_up_to_date, where it returns.
is_jdk_up_to_date(check) == check \in {"same", "no_redirect"}

\* main: ctx.run_gui() and the start of prepare_server up to the end of the
\* get_jdk thread. java_option: host.yaml names a java; check: what the
\* version check meets; ok: the download of the JDK answered 200.
forge_get_jdk ==
    /\ fPc = "get_jdk"
    /\ \E java_option \in BOOLEAN, check \in JdkChecks, ok \in BOOLEAN :
        IF java_option
        THEN \* get_jdk returns the path without setting the global
             UNCHANGED << jdk, jdk_executable, hist >>
        ELSE IF jdk /\ check = "unreachable"
        THEN \* the exception of requests.get ends the get_jdk thread
             /\ UNCHANGED << jdk, jdk_executable >>
             /\ hist' = [hist EXCEPT !.jdkCheck = check]
        ELSE IF jdk /\ is_jdk_up_to_date(check)
        THEN /\ jdk_executable' = TRUE
             /\ UNCHANGED jdk
             /\ hist' = [hist EXCEPT !.jdkCheck = check]
        ELSE \* download_jdk: rmtree(jdk_dir), then extract or raise
             /\ jdk' = ok
             /\ jdk_executable' = ok
             /\ UNCHANGED hist
    /\ fPc' = "check_forge"
    /\ UNCHANGED << forge_dir, exit_event, ui_task >>
    /\ UNCHANGED << clientVars, jars, modsDir, sidecar, eula, saveFile, superVars >>
    /\ UNCHANGED appVars

\* check_forge and download_forge. ok: the installer download answered 200;
\* installed: the installer process created the libraries directory.
forge_check_forge ==
    /\ fPc = "check_forge"
    /\ IF forge_dir = "installed"
       THEN UNCHANGED << forge_dir, prompt >>
       ELSE \E ok \in BOOLEAN, installed \in BOOLEAN :
              IF ~ok
              THEN UNCHANGED << forge_dir, prompt >>
              ELSE IF ~jdk_executable
              THEN \* Popen((None, ...)) raises; the except branch reports it
                   /\ forge_dir' = "empty"
                   /\ prompt' = "error"
              ELSE /\ forge_dir' = IF installed THEN "installed" ELSE "empty"
                   /\ UNCHANGED prompt
    /\ fPc' = "update_mod"
    /\ UNCHANGED << jdk_executable, exit_event, ui_task, hist >>
    /\ UNCHANGED << screen, apmc, minecraft_versions, version, mod_info, index,
                    download, startPending, crashed, notices >>
    /\ UNCHANGED << diskVars, superVars >>
    /\ UNCHANGED appVars

\* update_mod up to its wait loop. Without forge_dir, os.mkdir(mods_dir)
\* raises and the except branch of prepare_server sets exit_event.
forge_update_mod ==
    /\ fPc = "update_mod"
    /\ IF forge_dir = "absent"
       THEN /\ log' = Append(log, ForgeErrorEvent("Error Preparing Minecraft Server"))
            /\ prompt' = "error"
            /\ exit_event' = TRUE
            /\ fPc' = "launch"
            /\ hist' = [hist EXCEPT !.depFailed = TRUE]
       ELSE /\ IF find_ap_randomizer_jar # ModUrlName
               THEN /\ prompt' = "update_mod"
                    /\ fPc' = "update_mod_wait"
               ELSE /\ fPc' = "check_eula"
                    /\ UNCHANGED prompt
            /\ UNCHANGED << log, exit_event, hist >>
    /\ UNCHANGED << jdk_executable, forge_dir, ui_task >>
    /\ UNCHANGED << screen, apmc, minecraft_versions, version, mod_info, index,
                    download, startPending, crashed, notices >>
    /\ UNCHANGED << srvPc, status, statusText, stop, child, written, pipe,
                    rdPc, queue >>
    /\ UNCHANGED diskVars
    /\ UNCHANGED appVars

\* What requests.get(url) and the write of the new mod file can come to:
\* "raise" (no connection), "status" (an answer other than 200), "open_error"
\* (open(new_ap_mod, 'wb') raises), "write_error" (f.write raises after the
\* file was created), "ok".
ModFetchOutcomes == {"ok", "status", "raise", "open_error", "write_error"}

\* (mutant) confirm removing the old mod file before it downloads the new one.
update_mod_files_remove_first(dir, old, answer, outcome) ==
    IF ~answer THEN dir
    ELSE IF outcome \in {"raise", "status", "open_error"} THEN dir \ {old}
    ELSE (dir \ {old}) \cup {ModUrlName}

\* The files of mods/ after confirm(self, answer) of update_mod, which found
\* old (find_ap_randomizer_jar) there: requests.get, then the write of the new
\* file, then os.remove of the old one.
update_mod_files(dir, old, answer, outcome) ==
    IF ~answer THEN dir
    ELSE IF outcome \in {"raise", "status", "open_error"} THEN dir
    ELSE IF outcome = "write_error" THEN dir \cup {ModUrlName}
    ELSE IF old # "None" THEN (dir \cup {ModUrlName}) \ {old}
    ELSE dir \cup {ModUrlName}

\* What confirm came to, for the history.
ModUpdateOutcome(answer, outcome) ==
    IF ~answer THEN "declined"
    ELSE IF outcome = "ok" THEN "written"
    ELSE IF outcome \in {"raise", "status"} THEN "failed"
    ELSE outcome

\* confirm of update_mod: the user answers the popup, and the download of the
\* mod is answered, by 200 or by another status.
forge_update_mod_confirm ==
    /\ prompt = "update_mod" /\ ui_task = "running"
    /\ \E answer \in BOOLEAN, outcome \in {"ok", "status"} :
        /\ modsDir' = update_mod_files(modsDir, find_ap_randomizer_jar, answer, outcome)
        /\ log' = IF answer /\ outcome = "status"
                  THEN Append(log, ForgeErrorEvent("Error retrieving the randomizer mod"))
                  ELSE log
        /\ hist' = [hist EXCEPT
                       !.depFailed = @ \/ (answer /\ outcome = "status"),
                       !.modUpdate = ModUpdateOutcome(answer, outcome),
                       !.modsBefore = modsDir]
    /\ prompt' = "none"
    /\ UNCHANGED << forgeVars, appVars >>
    /\ UNCHANGED << screen, apmc, minecraft_versions, version, mod_info, index,
                    download, startPending, crashed, notices >>
    /\ UNCHANGED << srvPc, status, statusText, stop, child, written, pipe,
                    rdPc, queue >>
    /\ UNCHANGED << jdk, jars, sidecar, eula, saveFile >>

\* confirm of update_mod answered yes, with requests.get or the write of the
\* file raising: the exception leaves the callback before
\* ctx._messagebox.dismiss() and ends the kivy application.
forge_update_mod_confirm_raise ==
    /\ prompt = "update_mod" /\ ui_task = "running"
    /\ \E outcome \in ModFetchOutcomes \ {"ok", "status"} :
        /\ modsDir' = update_mod_files(modsDir, find_ap_randomizer_jar, TRUE, outcome)
        /\ hist' = [hist EXCEPT !.modUpdate = ModUpdateOutcome(TRUE, outcome),
                                !.modsBefore = modsDir]
    /\ ui_task' = "failed"
    /\ crashed' = TRUE
    /\ UNCHANGED << fPc, jdk_executable, forge_dir, exit_event >>
    /\ UNCHANGED appVars
    /\ UNCHANGED << screen, prompt, apmc, minecraft_versions, version, mod_info,
                    index, download, startPending, notices >>
    /\ UNCHANGED << srvPc, status, statusText, stop, child, written, pipe,
                    rdPc, queue, log >>
    /\ UNCHANGED << jdk, jars, sidecar, eula, saveFile >>

\* "while ctx.confirm_up: await asyncio.sleep(0.01)" of update_mod ends.
forge_update_mod_wait ==
    /\ fPc = "update_mod_wait" /\ ~confirm_up
    /\ fPc' = "check_eula"
    /\ UNCHANGED << jdk_executable, forge_dir, exit_event, ui_task, hist >>
    /\ UNCHANGED << clientVars, diskVars, superVars >>
    /\ UNCHANGED appVars

\* 'false' in text, for the texts eula.txt is modelled with.
EulaHasFalse(text) == text = "false"

\* text.replace('false', 'true')
EulaReplace(text) == IF text = "false" THEN "true" ELSE text

\* check_eula up to its wait loop: create eula.txt if it is missing, prompt if
\* the text holds 'false'.
forge_check_eula ==
    /\ fPc = "check_eula"
    /\ eula' = EulaAfterCheck(eula)
    /\ IF EulaHasFalse(EulaAfterCheck(eula))
       THEN /\ prompt' = "check_eula"
            /\ fPc' = "check_eula_wait"
       ELSE /\ fPc' = "launch"
            /\ UNCHANGED prompt
    /\ UNCHANGED << jdk_executable, forge_dir, exit_event, ui_task, hist >>
    /\ UNCHANGED << screen, apmc, minecraft_versions, version, mod_info, index,
                    download, startPending, crashed, notices >>
    /\ UNCHANGED << jdk, jars, modsDir, sidecar, saveFile, superVars >>
    /\ UNCHANGED appVars

\* confirm of check_eula: the user answers the popup.
forge_check_eula_confirm ==
    /\ prompt = "check_eula" /\ ui_task = "running"
    /\ \E answer \in BOOLEAN :
        /\ eula' = IF answer THEN EulaReplace(eula) ELSE eula
        /\ hist' = [hist EXCEPT !.eulaAnswer = IF answer THEN "yes" ELSE "no"]
    /\ prompt' = "none"
    /\ UNCHANGED << forgeVars, appVars >>
    /\ UNCHANGED << screen, apmc, minecraft_versions, version, mod_info, index,
                    download, startPending, crashed, notices >>
    /\ UNCHANGED << jdk, jars, modsDir, sidecar, saveFile, superVars >>

\* The wait loop of check_eula ends, prepare_server returns and main creates
\* the minecraft_launch_server task.
forge_check_eula_wait ==
    /\ fPc = "check_eula_wait" /\ ~confirm_up
    /\ fPc' = "launch"
    /\ UNCHANGED << jdk_executable, forge_dir, exit_event, ui_task, hist >>
    /\ UNCHANGED << clientVars, diskVars, superVars >>
    /\ UNCHANGED appVars

\* minecraft_launch_server up to its loop: read the args file, Popen, start
\* the queuer threads. A missing args file or a jdk_executable of None raises
\* and the except branch sets exit_event.
minecraft_launch_server ==
    /\ fPc = "launch"
    /\ IF forge_dir = "installed" /\ jdk_executable
       THEN /\ child' = "alive"
            /\ written' = 0
            /\ pipe' = [s \in Streams |-> << >>]
            /\ rdPc' = [s \in Streams |-> "poll"]
            /\ queue' = << >>
            /\ log' = Append(log, [level |-> "INFO", msg |-> "Starting Minecraft Forge Server."])
            /\ fPc' = "loop"
            /\ hist' = [hist EXCEPT !.launches = @ + 1]
            /\ UNCHANGED << prompt, exit_event >>
       ELSE /\ log' = Append(log, ForgeErrorEvent("Minecraft Server Spinup Error"))
            /\ prompt' = "error"
            /\ exit_event' = TRUE
            /\ fPc' = "shutdown"
            /\ UNCHANGED << child, written, pipe, rdPc, queue, hist >>
    /\ UNCHANGED << jdk_executable, forge_dir, ui_task >>
    /\ UNCHANGED << screen, apmc, minecraft_versions, version, mod_info, index,
                    download, startPending, crashed, notices >>
    /\ UNCHANGED << srvPc, status, statusText, stop >>
    /\ UNCHANGED diskVars
    /\ UNCHANGED appVars

\* "while not ctx.exit_event.is_set(): if minecraft_process.poll() is not None"
forge_loop_poll ==
    /\ fPc = "loop"
    /\ IF exit_event
       THEN /\ fPc' = "shutdown"
            /\ UNCHANGED << log, exit_event, hist >>
       ELSE /\ fPc' = "drain"
            /\ IF child = "exited"
               THEN /\ log' = Append(log, ExitEvent)
                    /\ exit_event' = TRUE
                    /\ hist' = [hist EXCEPT !.exitSeen = TRUE]
               ELSE UNCHANGED << log, exit_event, hist >>
    /\ UNCHANGED << jdk_executable, forge_dir, ui_task >>
    /\ UNCHANGED << srvPc, status, statusText, stop, child, written, pipe,
                    rdPc, queue >>
    /\ UNCHANGED << clientVars, diskVars >>
    /\ UNCHANGED appVars

\* The addresses a server may report a connection to, and their texts.
Addresses == {"127.0.0.1", "localhost", "[::1]"}

AddressText(a) ==
    CASE a = "127.0.0.1" -> << "1", "2", "7", ".", "0", ".", "0", ".", "1" >>
      [] a = "localhost" -> << "l", "o", "c", "a", "l", "h", "o", "s", "t" >>
      [] OTHER           -> << "[", ":", ":", "1", "]" >>

\* The address a text is the text of; any other text is no address the
\* server reported.
TextAddress(t) ==
    IF \E a \in Addresses : AddressText(a) = t
    THEN CHOOSE a \in Addresses : AddressText(a) = t
    ELSE "other"

ConnectedPrefix ==
    << "S", "u", "c", "c", "e", "s", "s", "f", "u", "l", "l", "y", " ", "c", "o", "n", "n", "e", "c", "t", "e", "d", " ", "t", "o", " " >>

\* "[HH:MM:SS] [Server thread/INFO] [logger]: Successfully connected to
\* <address>"; ver holds the address.
ConnectedLine(a) == [thread |-> "Server thread", level |-> "INFO", logger |-> TRUE,
                     msg |-> "Successfully connected to ", ver |-> a]

\* The text of match.group(2) of a line.
MsgText(line) ==
    IF line.msg = "Successfully connected to "
    THEN ConnectedPrefix \o AddressText(line.ver)
    ELSE << >>

\* kivy.utils.escape_markup: & becomes &amp;, [ becomes &bl;, ] becomes &br;.
RECURSIVE escape_markup(_)
escape_markup(t) ==
    IF t = << >> THEN << >>
    ELSE (CASE Head(t) = "&" -> << "&", "a", "m", "p", ";" >>
            [] Head(t) = "[" -> << "&", "b", "l", ";" >>
            [] Head(t) = "]" -> << "&", "b", "r", ";" >>
            [] OTHER         -> << Head(t) >>) \o escape_markup(Tail(t))

\* str.strip(chars): leading and trailing characters that are in the set
\* of characters of chars are removed.
RECURSIVE strip_chars(_, _)
strip_chars(t, chars) ==
    IF t # << >> /\ Head(t) \in Range(chars) THEN strip_chars(Tail(t), chars)
    ELSE IF t # << >> /\ t[Len(t)] \in Range(chars)
    THEN strip_chars(SubSeq(t, 1, Len(t) - 1), chars)
    ELSE t

\* addr = msg.strip("Successfully connected to ")
connected_addr(msg) == strip_chars(msg, ConnectedPrefix)

\* One pass of "while not minecraft_queue.empty()": a "Successfully connected
\* to" message updates the address bar of the UI, and the line is logged.
forge_loop_line ==
    /\ fPc = "drain" /\ queue # << >>
    /\ queue' = Tail(queue)
    /\ log' = Append(log, LogEvent(Head(queue)))
    /\ LET line == Head(queue)
           msg == escape_markup(MsgText(line))
       IN  hist' = IF /\ LeveledMatch(line) /\ line.level = "INFO"
                      /\ StartsWith(msg, ConnectedPrefix)
                   THEN [hist EXCEPT !.connected = line.ver,
                                     !.addressBar = TextAddress(connected_addr(msg))]
                   ELSE hist
    /\ UNCHANGED << forgeVars, appVars >>
    /\ UNCHANGED << srvPc, status, statusText, stop, child, written, pipe, rdPc >>
    /\ UNCHANGED << clientVars, diskVars >>

\* The queue is empty: await asyncio.sleep(0.01).
forge_loop_sleep ==
    /\ fPc = "drain" /\ queue = << >>
    /\ fPc' = "loop"
    /\ UNCHANGED << jdk_executable, forge_dir, exit_event, ui_task, hist >>
    /\ UNCHANGED << clientVars, diskVars, superVars >>
    /\ UNCHANGED appVars

\* MinecraftUI.on_stop: the user closes the window.
forge_on_stop ==
    /\ ui_task = "running"
    /\ ui_task' = "done"
    /\ exit_event' = TRUE
    /\ UNCHANGED << fPc, jdk_executable, forge_dir, hist >>
    /\ UNCHANGED << clientVars, diskVars, superVars >>
    /\ UNCHANGED appVars

\* MinecraftContext.send_command(raw): write and flush on the child's stdin,
\* with nothing caught. SendRaises: the call raises (minecraft_process is
\* None, or the pipe of an exited child is broken).
SendRaises == child # "alive"

forge_send_command(raw) == IF SendRaises THEN stdin ELSE Append(stdin, raw)

\* MinecraftUI.on_message: the user enters a line; the command processor hands
\* it to send_command, and on_message logs whatever that raises.
forge_on_message ==
    /\ ui_task = "running" /\ hist.sends < MaxCommands
    /\ stdin' = forge_send_command("say")
    /\ log' = IF SendRaises THEN Append(log, ForgeErrorEvent("send_command"))
                            ELSE log
    /\ hist' = [hist EXCEPT !.sends = @ + 1,
                            !.sendRaised = IF SendRaises THEN "logged" ELSE @]
    /\ UNCHANGED << closing, terminal, manifest, cache >>
    /\ UNCHANGED forgeVars
    /\ UNCHANGED << srvPc, status, statusText, stop, child, written, pipe,
                    rdPc, queue >>
    /\ UNCHANGED << clientVars, diskVars >>

\* MinecraftUI.connect_button_action: ctx.connect(address) calls send_command
\* with nothing around it; what it raises leaves the Kivy event loop and ends
\* the UI task with that exception.
forge_connect_button_action ==
    /\ ui_task = "running" /\ hist.sends < MaxCommands
    /\ stdin' = forge_send_command("connect")
    /\ ui_task' = IF SendRaises THEN "failed" ELSE ui_task
    /\ crashed' = (crashed \/ SendRaises)
    /\ hist' = [hist EXCEPT !.sends = @ + 1,
                            !.sendRaised = IF SendRaises THEN "raised" ELSE @]
    /\ UNCHANGED << closing, terminal, manifest, cache >>
    /\ UNCHANGED << fPc, jdk_executable, forge_dir, exit_event >>
    /\ UNCHANGED << screen, prompt, apmc, minecraft_versions, version, mod_info,
                    index, download, startPending, notices >>
    /\ UNCHANGED << diskVars, superVars >>

\* main after the server task has ended: ctx.shutdown() awaits the UI task
\* (which re-raises if that task failed) and then kills the child.
forge_shutdown ==
    /\ fPc = "shutdown" /\ ui_task \in {"done", "failed"}
    /\ child' = IF child = "alive" /\ ui_task = "done" THEN "exited" ELSE child
    /\ fPc' = "done"
    /\ hist' = [hist EXCEPT !.killed = @ \/ (child = "alive" /\ ui_task = "done")]
    /\ UNCHANGED << jdk_executable, forge_dir, exit_event, ui_task >>
    /\ UNCHANGED << srvPc, status, statusText, stop, written, pipe, rdPc,
                    queue, log >>
    /\ UNCHANGED << clientVars, diskVars >>
    /\ UNCHANGED appVars

\* The install directories earlier runs of the forge client leave behind.
ForgeDirs ==
    { [forge_dir |-> "absent", modsDir |-> {}, eula |-> "absent"] }
    \cup [forge_dir : {"empty", "installed"},
          modsDir : {{}, {OldModName}, {ModUrlName}},
          eula : {"absent", "false", "true"}]

InitForge ==
    /\ screen = "none" /\ prompt = "none" /\ apmc = NoApmc
    /\ minecraft_versions = Catalog
    /\ version = 0 /\ mod_info = [ref |-> 0, val |-> Empty]
    /\ index = 0 /\ download = {} /\ startPending = 0
    /\ crashed = FALSE /\ notices = {}
    /\ jdk \in BOOLEAN
    /\ jars = {} /\ sidecar = Empty /\ saveFile = NoApmc
    /\ \E d \in ForgeDirs :
        /\ forge_dir = d.forge_dir
        /\ modsDir = d.modsDir
        /\ eula = d.eula
    /\ srvPc = "none" /\ status = STOPPED /\ statusText = "none" /\ stop = FALSE
    /\ child = "none" /\ written = 0
    /\ pipe = [s \in Streams |-> << >>]
    /\ rdPc = [s \in Streams |-> "none"]
    /\ queue = << >> /\ log = << >>
    /\ fPc = "get_jdk" /\ jdk_executable = FALSE
    /\ exit_event = FALSE /\ ui_task = "running"
    /\ closing = FALSE /\ terminal = FALSE /\ stdin = << >>
    /\ manifest = "done" /\ cache = TRUE
    /\ hist = NoHist

NextForge ==
    \/ forge_get_jdk
    \/ forge_check_forge
    \/ forge_update_mod
    \/ forge_update_mod_confirm
    \/ forge_update_mod_wait
    \/ forge_check_eula
    \/ forge_check_eula_confirm
    \/ forge_check_eula_wait
    \/ minecraft_launch_server
    \/ forge_loop_poll
    \/ forge_loop_line
    \/ forge_loop_sleep
    \/ forge_on_stop
    \/ forge_shutdown
    \/ queuer_poll
    \/ queuer_readline
    \/ child_write
    \/ child_exit

SpecForge == InitForge /\ [][NextForge]_vars

\* The forge client over a directory that needs no prompt, with the user
\* entering commands and pressing Connect while the UI runs.
InitForgeCmd ==
    /\ InitForge
    /\ jdk /\ forge_dir = "installed" /\ modsDir = {ModUrlName} /\ eula = "true"

NextForgeCmd ==
    \/ forge_get_jdk
    \/ forge_check_forge
    \/ forge_update_mod
    \/ forge_check_eula
    \/ minecraft_launch_server
    \/ forge_loop_poll
    \/ forge_loop_line
    \/ forge_loop_sleep
    \/ forge_on_stop
    \/ forge_on_message
    \/ forge_connect_button_action
    \/ forge_shutdown
    \/ queuer_poll
    \/ queuer_readline
    \/ child_write
    \/ child_exit

SpecForgeCmd == InitForgeCmd /\ [][NextForgeCmd]_vars

\* The forge client over an installed directory with or without a randomizer
\* mod, the download and the write of the new mod failing or not.
InitForgeMod ==
    /\ InitForge
    /\ jdk /\ forge_dir = "installed" /\ eula = "true"

NextForgeMod ==
    \/ forge_get_jdk
    \/ forge_check_forge
    \/ forge_update_mod
    \/ forge_update_mod_confirm
    \/ forge_update_mod_confirm_raise
    \/ forge_update_mod_wait
    \/ forge_check_eula
    \/ minecraft_launch_server
    \/ forge_loop_poll
    \/ forge_loop_line
    \/ forge_loop_sleep
    \/ forge_on_stop
    \/ forge_shutdown
    \/ queuer_poll
    \/ queuer_readline
    \/ child_write
    \/ child_exit

SpecForgeMod == InitForgeMod /\ [][NextForgeMod]_vars

-----------------------------------------------------------------------------
\* The forge client with players connecting to the server.

\* The server reports a connection on one of its output streams.
child_write_connected ==
    /\ child = "alive" /\ written < MaxLines
    /\ \E s \in Streams, a \in Addresses :
        /\ pipe' = [pipe EXCEPT ![s] = Append(@, ConnectedLine(a))]
        /\ written' = written + 1
    /\ UNCHANGED << srvPc, status, statusText, stop, child, rdPc, queue,
                    log, hist >>
    /\ UNCHANGED << clientVars, diskVars >>
    /\ UNCHANGED << forgeVars, appVars >>

NextConnected ==
    \/ forge_get_jdk
    \/ forge_check_forge
    \/ forge_update_mod
    \/ forge_check_eula
    \/ minecraft_launch_server
    \/ forge_loop_poll
    \/ forge_loop_line
    \/ forge_loop_sleep
    \/ forge_on_stop
    \/ queuer_poll
    \/ queuer_readline
    \/ child_write_connected
    \/ child_exit

SpecConnected == InitForgeCmd /\ [][NextConnected]_vars

-----------------------------------------------------------------------------
\* Properties of the forge client (SpecForge).

\* C2: a child server process has been launched only if eula.txt records
\* acceptance; while the confirmation is pending, and after the user has
\* answered no, no child process is started.
C2_LaunchOnlyIfEulaAccepted ==
    /\ child # "none" => eula = "true"
    /\ prompt = "check_eula" => child = "none"
    /\ hist.eulaAnswer = "no" => child = "none"

\* C3: the child is launched only after dependency resolution returned
\* ready: the runtime executable and the server binary exist, no download or
\* confirmation is outstanding, and no step of the pass has failed.
C3_LaunchOnlyWhenReady ==
    hist.launches > 0 =>
        /\ jdk_executable /\ forge_dir = "installed"
        /\ ~confirm_up
        /\ ~hist.depFailed

-----------------------------------------------------------------------------
\* Properties of the fabric client (Spec).

IsLoadingLine(line) == line # NoLine /\ line = LoadingLine(line.ver)

IsPrefix(a, b) == Len(a) <= Len(b) /\ SubSeq(b, 1, Len(a)) = a

ModJobs == {j \in download : j.kind = "mod"}

\* C1: once the supervising loop has detected the exit of the child, the
\* "server has exited" event is in the log and self.status is STOPPED,
\* whatever it was before.
C1_ExitForcesStopped ==
    hist.exitSeen => (status = STOPPED /\ ExitEvent \in Range(log))

\* C4: within one run of server_thread no dequeued line moves self.status
\* backward in STOPPED < STARTING < RUNNING: after every line the status is
\* at least what it was before the line.
C4_StatusMonotonic ==
    hist.lastLine # NoLine => status >= hist.prev

C4_Witness ==
    /\ hist.prev = RUNNING /\ IsLoadingLine(hist.lastLine) /\ status = RUNNING

\* C5: a "Loading Minecraft <version>" line dequeued while the status is
\* STOPPED makes it STARTING, that transition happens at most once in a run,
\* and the same line dequeued while the status is RUNNING leaves it RUNNING.
C5_LoadingLine ==
    /\ hist.s2s <= 1
    /\ IsLoadingLine(hist.lastLine) =>
          /\ hist.prev = STOPPED => (status = STARTING /\ hist.s2s = 1)
          /\ hist.prev = RUNNING => status = RUNNING

C5_Witness ==
    /\ IsLoadingLine(hist.lastLine) /\ hist.prev = STOPPED
    /\ status = STARTING /\ hist.s2s = 1

\* C6: a "Done (<seconds>s)! For help, type "help"" line of the server thread
\* dequeued while the status is below RUNNING (STARTING in particular) makes
\* it RUNNING; dequeued while the status is RUNNING it leaves it RUNNING.
C6_DoneLine ==
    hist.lastLine = DoneLine =>
        /\ hist.prev < RUNNING => status = RUNNING
        /\ hist.prev = RUNNING => status = RUNNING

C6_Witness ==
    /\ hist.lastLine = DoneLine /\ hist.prev = STARTING /\ status = RUNNING

\* C7: when server_thread has ended, every line the child wrote before it
\* exited has been classified (none is left in a pipe or in the queue, so an
\* ERROR event for "boom" is in the log when the child wrote that line) and
\* the exit event is in the log.
C7_NoLineLost ==
    srvPc = "done" =>
        /\ \A s \in Streams : pipe[s] = << >>
        /\ queue = << >>
        /\ ExitEvent \in Range(log)

\* C8: while the "Mod List Update" prompt is open, and after it was answered
\* no, mods/ holds what it held when the prompt was raised.
C8_WipeOnlyAfterConfirm ==
    hist.modAnswer \in {"pending", "no"} => modsDir = hist.modsAtPrompt

C8_Witness ==
    /\ hist.modAnswer = "no" /\ prompt = "none" /\ modsDir # {}

\* C9: after the update was confirmed, at most one mod download is in flight,
\* the mods requested so far are a prefix of the record's list (in order,
\* each once), every mod but the one requested last is already written to
\* mods/, and the chain ends (ap-version.json is rewritten) only with the
\* whole list requested.
C9_ModsOneAtATime ==
    /\ Cardinality(ModJobs) <= 1
    /\ hist.modAnswer = "yes" =>
          /\ IsPrefix(hist.requested, hist.confirmed)
          /\ \A k \in 1..(Len(hist.requested) - 1) : hist.requested[k] \in modsDir
          /\ ModJobs # {} =>
                \E j \in ModJobs : j.name = hist.requested[Len(hist.requested)]
          /\ sidecar.mod_list_version # hist.idAtConfirm =>
                hist.requested = hist.confirmed

C9_Witness ==
    /\ hist.modAnswer = "yes" /\ Len(hist.requested) = 2
    /\ Cardinality(ModJobs) = 1 /\ hist.requested[1] \in modsDir

\* C10: after the update was confirmed, ap-version.json and self.mod_info
\* carry another identifier than before only when every mod of the record is
\* written to mods/, and then it is the record's identifier; after a failed
\* mod download both keep the identifier they had, and check_mods still
\* reports a change.
C10_IdentifierAfterAllMods ==
    hist.modAnswer = "yes" =>
        /\ (\/ sidecar.mod_list_version # hist.idAtConfirm
            \/ ModInfoDict.mod_list_version # hist.idAtConfirm) =>
                /\ Range(hist.confirmed) \subseteq modsDir
                /\ sidecar.mod_list_version = hist.idRecord
                /\ ModInfoDict.mod_list_version = hist.idRecord
        /\ hist.failedMod =>
                /\ sidecar.mod_list_version = hist.idAtConfirm
                /\ ModInfoDict.mod_list_version = hist.idAtConfirm
                /\ ~check_mods

C10_Witness ==
    /\ hist.modAnswer = "yes" /\ hist.failedMod /\ Len(hist.requested) = 2
    /\ hist.requested[1] \in modsDir /\ hist.requested[2] \notin modsDir

\* C11: on a fresh install directory the first passes of start_server request
\* the runtime, then the server jar, and only then raise the mods
\* confirmation: no mods prompt is up before both have been fetched.
C11_FreshInstallOrder ==
    (hist.fresh /\ prompt = "mods") => (get_jdk /\ get_server_jar)

C13_NoAbandonsSession ==
    hist.declined # "none" =>
        /\ screen = "Welcome" /\ prompt = "none"
        /\ startPending = 0 /\ download = {} /\ srvPc = "none"

\* One step of the fabric client that answers a prompt.
C13_AnswerStep ==
    /\ (prompt = "eula" /\ prompt' = "none" /\ hist'.declined # "eula")
          => startPending' = startPending + 1
    /\ (prompt = "mods" /\ prompt' = "none" /\ hist'.modAnswer = "no")
          => (startPending' = startPending + 1 /\ download' = download
              /\ modsDir' = modsDir)
    /\ (prompt = "mods" /\ prompt' = "none" /\ hist'.modAnswer = "yes")
          => (startPending' = startPending + 1 \/ download' # download)

\* C13, amended: answering no at the EULA prompt abandons the session (Welcome
\* screen, no call of start_server pending, no download, no launch until a
\* new session is opened); answering yes at either prompt, and answering no
\* at the mods prompt, leads back into start_server, the no without touching
\* mods/ or starting a download.
C13_EulaNoAbandons ==
    /\ [](hist.declined = "eula" =>
            /\ screen = "Welcome" /\ prompt = "none"
            /\ startPending = 0 /\ download = {} /\ srvPc = "none")
    /\ [][C13_AnswerStep]_vars

\* The EULA prompt was answered no, after an earlier mods prompt was answered.
C13_Witness ==
    /\ hist.declined = "eula" /\ hist.modAnswer # "none"
    /\ screen = "Welcome" /\ prompt = "none"

-----------------------------------------------------------------------------
\* C14: once the user has asked the window to close, the application
\* eventually ends with the child process terminated, even when the child
\* never acts on the stop command (unless a handler crashed first).
C14_ShutdownEffective ==
    (closing \/ terminal) ~> ((terminal /\ child # "alive") \/ crashed)

\* C15: the application has ended through a close request only in states
\* where no launched child process is still alive, whatever the status was.
C15_TerminalAfterChildGone == terminal => child # "alive"

-----------------------------------------------------------------------------
\* C16: whenever the child has been killed by the shutdown, a stop command
\* had been written to its stdin before.
C16_StopBeforeKill ==
    hist.killed => \E i \in DOMAIN stdin : stdin[i] = "stop"

\* C17: a command sent while there is no child, or after the child exited,
\* fails silently: nothing is raised to the caller and the UI keeps running.
C17_SendFailsSilently ==
    hist.sends > 0 => (hist.sendRaised = "no" /\ ui_task # "failed" /\ ~crashed)

-----------------------------------------------------------------------------
\* C18: once the exit of a child that was Starting or Running has been seen
\* and the server thread has ended, the session is back where a launch can be attempted: on the Welcome
\* screen, where open_apmc is offered, with the stop event cleared so that a
\* new server thread would run its loop.
C18_RelaunchableAfterExit ==
    (hist.exitSeen /\ hist.exitStatus \in {STARTING, RUNNING}
        /\ srvPc = "done" /\ MainIdle)
      => (screen = "Welcome" /\ ~stop)

-----------------------------------------------------------------------------
\* C19: once the request for the manifest has ended, in whatever way, the
\* catalog is loaded (from the answer, or from the cache file when the fetch
\* failed), or else there is no cache file, the failure was reported and no
\* session is open.
C19_CatalogFallback ==
    manifest # "pending" =>
        \/ manifest \in {"done", "nochannel"}
        \/ /\ ~cache /\ hist.catalogReported
           /\ screen = "Welcome" /\ startPending = 0 /\ srvPc = "none"

\* C20: a descriptor whose version the release channel does not list, the
\* channel or the version missing alike, is answered by the report of that
\* version and channel, and no session is opened for it.
C20_VersionNotFound ==
    hist.lookup \in {"reported", "raised"} =>
        /\ hist.lookup = "reported" /\ ~crashed
        /\ screen = "Welcome" /\ startPending = 0

-----------------------------------------------------------------------------
\* C21: the in-memory catalog stays what the manifest gave: whatever handler
\* ran since it was loaded, every record of the release channel is unchanged,
\* so that a lookup returns the same record every time.
C21_CatalogImmutable == minecraft_versions = Catalog

\* C22: a malformed session file is answered by a report at open time and
\* by nothing else: the handler ends normally, the Welcome screen stays and
\* no call of start_server is pending.
C22_MalformedReported ==
    hist.malformed =>
        /\ hist.lookup = "reported" /\ ~crashed
        /\ screen = "Welcome" /\ startPending = 0

-----------------------------------------------------------------------------
\* C24: a download of the open session that ended in a transport failure or
\* in a final status outside 2xx was reported by a dialog, whatever it was
\* to fetch, and its handler ended normally.
C24_NetworkErrorReported ==
    hist.failCause = "network" => (hist.fail = "reported" /\ ~crashed)

\* C25: a download of the open session whose file could not be written or
\* whose archive could not be extracted was reported through its error
\* continuation, and its handler ended normally.
C25_WriteErrorReported ==
    hist.failCause = "write" => (hist.fail = "reported" /\ ~crashed)

-----------------------------------------------------------------------------
\* C26: with the runtime present and the version check unreachable, or
\* answered by anything but a redirect, the runtime counts as satisfied: its
\* directory is still there and the executable is set for the launch.
C26_OfflineRuntimeSatisfied ==
    hist.jdkCheck \in {"no_redirect", "unreachable"} => (jdk /\ jdk_executable)

-----------------------------------------------------------------------------
\* C27: when the server executable could not be started, the failure was
\* reported by an error entry, the status is Stopped, and no reader thread
\* or supervising loop runs for the child that never started.
C27_LaunchErrorReported ==
    srvPc = "dead" =>
        /\ status = STOPPED
        /\ \A s \in Streams : rdPc[s] = "none"
        /\ \E i \in DOMAIN log : log[i].level = "ERROR"

-----------------------------------------------------------------------------
\* One step leaves a save file that is there as it is.
C28_SaveStep == saveFile # NoApmc => saveFile' = saveFile

\* C28: a launch leaves the save file of the world directory as it is when
\* that file is already there, in particular when the session was opened
\* from that very file.
C28_SaveFileReused ==
    /\ [](hist.enc = "save" => saveFile = hist.saveAtOpen)
    /\ [][C28_SaveStep]_vars

\* A session opened from the save file of the world directory has launched
\* its child.
C28_Witness ==
    /\ hist.enc = "save" /\ child = "alive"
    /\ saveFile # NoApmc /\ saveFile = hist.saveAtOpen

\* C29: status transitions are applied in the order the lines were appended to
\* the shared queue.  Every step that takes a line off the queue takes the
\* oldest one and applies exactly that line's transition to the status; every
\* step that adds a line adds the oldest unread line of one stream at the end
\* of the queue, whichever reader adds it; the child's writes extend a stream
\* at its end; and the status moves only when a line is taken off the queue.
C29_Step ==
    /\ Len(queue') < Len(queue) =>
          /\ queue' = Tail(queue)
          /\ hist'.lastLine = Head(queue)
          /\ status' = StatusAfterLine(status, Head(queue))
    /\ Len(queue') > Len(queue) =>
          \E s \in Streams :
              /\ pipe[s] # << >>
              /\ queue' = Append(queue, Head(pipe[s]))
              /\ pipe' = [pipe EXCEPT ![s] = Tail(@)]
    /\ \A s \in Streams :
          Len(pipe'[s]) > Len(pipe[s]) =>
              SubSeq(pipe'[s], 1, Len(pipe[s])) = pipe[s]
    /\ status' # status => Len(queue') < Len(queue)

C29_QueueOrder == [][C29_Step]_vars

\* A starting line has been taken off the queue and applied while the started
\* line that was written after it still waits behind it.
C29_Witness ==
    /\ status = STARTING /\ server_starting_match(hist.lastLine)
    /\ Len(queue) = 1 /\ server_started_match(queue[1])

\* C30: the downloader reissues a redirected request against the resolved
\* absolute URL. Every request in flight, after any number of redirects, is
\* addressed to the URL of the resource the last redirect pointed to,
\* whether its Location was relative or absolute.
C30_RedirectResolved ==
    \A j \in download : j.url = ResourceUrl(j.hops)

\* C31: a fetch does not loop for ever on a degenerate redirect case. When
\* the server answers every request with a redirect, a job in flight
\* eventually ends.
C31_RedirectsEnd == (download # {}) ~> (download = {})

\* C32: within one fetch job the reported progress never decreases from one
\* progress report to the next, across followed redirects too, whether the
\* total size is known or not. No step lowers the progress shown for a job
\* that stays in flight.
C32_Step ==
    \A j \in download : \A k \in download' :
        (k.id = j.id /\ k.kind = j.kind /\ k.name = j.name)
            => k.progress >= j.progress

C32_ProgressMonotone == [][C32_Step]_vars

\* C33: a non-extracting fetch whose response carries a Content-Disposition
\* header writes its file under the explicit file name if one was passed
\* (the server jar), otherwise under the file name the header gives if it
\* gives one, otherwise under the basename of the request URL.
C33_FileNamePriority ==
    hist.named # "none" =>
        hist.named = IF hist.fetch.kind = "jar" THEN hist.fetch.name
                     ELSE IF hist.fetch.header # "none" THEN hist.fetch.header
                     ELSE hist.fetch.name

\* C34: when the archive of the runtime has been extracted, every file entry
\* has been written below the version-tagged runtime directory with its
\* first path component stripped, no directory entry has been written, and
\* the runtime-presence check finds the executable.
C34_ExtractStripsRoot ==
    hist.archive # "none" =>
        /\ hist.extracted =
              { << JdkDirName >> \o Tail(filter_bool(n)) :
                   n \in {m \in namelist(hist.archive) : ~is_dir(m)} }
        /\ jdk

\* C35: an INFO message "Successfully connected to <address>" is surfaced
\* as a notification carrying exactly <address>, and it never changes the
\* server status.
C35_ConnectedPassThrough ==
    /\ hist.connected # "none" => hist.addressBar = hist.connected
    /\ status = STOPPED

\* C36: at most one supervised child process and one classification loop
\* exist at any time: no server thread is started while an earlier one is
\* still starting, looping or draining, and a live child is always the one the
\* running loop supervises.
C36_SingleChild ==
    /\ ~hist.overlap
    /\ child = "alive" => srvPc \in {"loop", "drain"}

\* A session on a fresh install directory whose downloads completed and whose
\* EULA was confirmed has launched its server, and the child is alive.
C36_Witness ==
    /\ child = "alive" /\ srvPc = "loop"
    /\ hist.launches = 1 /\ hist.fresh /\ eula = "true"

\* C37: once the supervising loop has detected the child's exit, no step
\* raises the status to Starting or Running: the lines drained after the exit
\* detection leave the status as it is.
C37_Step ==
    hist.exitSeen => (status' = status \/ status' \notin {STARTING, RUNNING})

C37_NoRaiseAfterExit == [][C37_Step]_vars

\* C38: after the user answered no to the "mod list has changed" prompt, the
\* same prompt is not raised again for that session, with or without an
\* ap-version.json written by an earlier install.
C38_DeclineNoCycle == hist.declined = "mods" => prompt # "mods"

\* C39: in the forge client's mod update the old randomizer mod file is
\* removed only after the new one was downloaded and written: after a failed
\* download or a no, mods/ is as it was (old file present, no new file), and
\* whenever the old file is gone the new file is there, written in full.
C39_OldModKept ==
    /\ hist.modUpdate \in {"declined", "failed"} => modsDir = hist.modsBefore
    /\ \A f \in hist.modsBefore \ modsDir :
          hist.modUpdate = "written" /\ ModUrlName \in modsDir

\* The update was confirmed over a directory holding the older release, and
\* the new file replaced it.
C39_Witness ==
    /\ hist.modUpdate = "written" /\ hist.modsBefore = {OldModName}
    /\ modsDir = {ModUrlName}

====
